---- MODULE Spec2Model ----
(***************************************************************************)
(* A model of the resilient tool-invocation layer of the Teradata MCP      *)
(* client: the JSON-RPC transport (McpClient.call), tool-name              *)
(* canonicalisation, the argument-variant generator and the adaptive       *)
(* call_tool with its failure cache (src/helpers/mcp_client.py), and the   *)
(* normaliser of discovery responses (src/helpers/discovery_parser.py).    *)
(*                                                                         *)
(* Strings the code takes apart are sequences of tokens whose              *)
(* concatenation is the string: a tool name is a sequence over the prefix  *)
(* tokens "td_", "base_", "qlty_" and stems without underscore; an         *)
(* argument key is a sequence of lower-case words, capitalised words and   *)
(* the separators "_" and "-".                                             *)
(***************************************************************************)
EXTENDS Integers, Sequences, FiniteSets, TLC

\* ------------------------------------------------------------------ bounds

\* call_tool / call invocations made on the client in one behaviour
MaxCalls == 2
\* lines of a response body in the decoding specification
MaxLines == 2
\* requests of the session-header specification
MaxRequests == 4

\* ------------------------------------------------------- sequence helpers

IsPrefix(p, s) == Len(p) <= Len(s) /\ SubSeq(s, 1, Len(p)) = p

RECURSIVE ReplaceAll(_, _, _)
\* str.replace(old, new): non-overlapping occurrences, left to right
ReplaceAll(s, old, new) ==
    IF s = << >> THEN << >>
    ELSE IF IsPrefix(old, s)
         THEN new \o ReplaceAll(SubSeq(s, Len(old) + 1, Len(s)), old, new)
         ELSE <<Head(s)>> \o ReplaceAll(Tail(s), old, new)

RECURSIVE Flatten(_)
Flatten(ss) == IF ss = << >> THEN << >> ELSE Head(ss) \o Flatten(Tail(ss))

Take(s, n) == SubSeq(s, 1, IF Len(s) < n THEN Len(s) ELSE n)

\* ------------------------------------------------- tool-name canonicaliser

TD == "td_"
BASE == "base_"
QLTY == "qlty_"

\* the lookup table of _normalize_tool_name: short alias -> canonical name
Aliases == {"databaseList", "tableList", "tableDDL", "tablePreview",
            "missingValues", "distinctCategories", "univariateStatistics"}

MappingPrefix(stem) ==
    IF stem \in {"databaseList", "tableList", "tableDDL", "tablePreview"}
    THEN BASE ELSE QLTY

mapping == [a \in {<<s>> : s \in Aliases} |-> <<MappingPrefix(a[1]), a[1]>>]

NamespacePrefixes == {<<BASE>>, <<QLTY>>, <<TD, BASE>>, <<TD, QLTY>>}

\* a mutant: the alias table maps onto the td_-prefixed spelling
normalize_tool_name_td(name) ==
    IF name \in DOMAIN mapping THEN <<TD>> \o mapping[name]
    ELSE IF \E p \in NamespacePrefixes : IsPrefix(p, name)
         THEN ReplaceAll(ReplaceAll(name, <<TD, BASE>>, <<BASE>>),
                         <<TD, QLTY>>, <<QLTY>>)
         ELSE name

normalize_tool_name(name) ==
    IF name \in DOMAIN mapping THEN mapping[name]
    ELSE IF \E p \in NamespacePrefixes : IsPrefix(p, name)
         THEN ReplaceAll(ReplaceAll(name, <<TD, BASE>>, <<BASE>>),
                         <<TD, QLTY>>, <<QLTY>>)
         ELSE name

\* ---------------------------------------------------------- argument keys

Cap(w) == CASE w = "database" -> "Database"
            [] w = "table" -> "Table"
            [] w = "column" -> "Column"
            [] w = "name" -> "Name"
            [] OTHER -> w

Low(w) == CASE w = "Database" -> "database"
            [] w = "Table" -> "table"
            [] w = "Column" -> "column"
            [] w = "Name" -> "name"
            [] OTHER -> w

\* str.capitalize(): first character upper, the rest lower
Capitalize(part) ==
    [i \in 1..Len(part) |-> IF i = 1 THEN Cap(Low(part[i])) ELSE Low(part[i])]

RECURSIVE SplitUnderscore(_, _)
\* str.split('_'): acc is the part being read
SplitUnderscore(s, acc) ==
    IF s = << >> THEN <<acc>>
    ELSE IF Head(s) = "_" THEN <<acc>> \o SplitUnderscore(Tail(s), << >>)
         ELSE SplitUnderscore(Tail(s), Append(acc, Head(s)))

Snake(k) == [i \in 1..Len(k) |-> IF k[i] = "-" THEN "_" ELSE k[i]]

Camel(k) ==
    LET base == Snake(k)
        parts == SplitUnderscore(base, << >>)
    IN IF Len(parts) > 1
       THEN parts[1] \o Flatten([i \in 1..(Len(parts) - 1) |-> Capitalize(parts[i + 1])])
       ELSE base

\* ------------------------------------------- ordered mappings (Python dict)
\* a dict is a sequence of <<key, value>> pairs with distinct keys, in
\* insertion order

DictKeys(d) == {d[i][1] : i \in 1..Len(d)}

DictSet(d, k, v) ==
    IF k \in DictKeys(d)
    THEN [i \in 1..Len(d) |-> IF d[i][1] = k THEN <<k, v>> ELSE d[i]]
    ELSE Append(d, <<k, v>>)

DictPop(d, k) == SelectSeq(d, LAMBDA e : e[1] # k)

\* ------------------------------------------------------------- variables

VARIABLES
    camel_first,    \* hash order of the process: snake spellings whose set
                    \* {snake, camel} iterates camel first
    session_sid,    \* session.headers['Mcp-Session-Id'] ("absent" if unset)
    failure_cache,  \* _failure_cache: set of <<canonical, key set>>
    pc,             \* position of the client: idle / direct / variants
    frame,          \* locals of the running (or last) call_tool
    ret,            \* outcome of the last finished operation
    wire,           \* the fake transport's log: requests sent, with what came
                    \* back, oldest first (call_tool starts a fresh log)
    calls,          \* operations started so far
    rejected,       \* history: <<name, key set>> of every tools/call request
                    \* answered by an invalid-parameters error
    failed,         \* history: <<name, key set>> of every call_tool in which
                    \* all attempts were answered by invalid-parameters
    name_in,        \* canonicaliser specification: the name given,
    name_once,      \* its canonical form,
    name_twice,     \* and the canonical form of that
    stage,          \* canonicaliser specification: applications done
    gen_args,       \* generator specification: the argument mapping given
    gen_runs,       \* and what each run of _argument_variants yielded
    results,        \* the DiscoveryResults accumulator handed to apply
    apply_ret,      \* how the last DiscoveryParser.apply ended
    applied,        \* history: the (tool, raw_response) pairs applied
    sent,           \* envelope specification: the JSON-RPC payloads posted,
                    \* each with the id its caller supplied
    lane,           \* two-client specification: the McpClient instance (1
                    \* or 2) whose attributes the client variables hold
    parked,         \* and the attributes of the other instance
    captured,       \* history: the session ids this instance was given
    opc,            \* orchestrator: position in run_full
    orch,           \* orchestrator: attributes and locals of the run
    issued          \* history: the requests of the run, oldest first

vars == <<camel_first, session_sid, failure_cache, pc, frame, ret, wire,
          calls, rejected, failed, name_in, name_once, name_twice, stage,
          gen_args, gen_runs, results, apply_ret, applied, sent, lane,
          parked, captured, opc, orch, issued>>

GenVars == <<gen_args, gen_runs>>

DiscVars == <<results, apply_ret, applied>>

EnvelopeVars == <<sent>>

LaneVars == <<lane, parked, captured>>

OrchVars == <<opc, orch, issued>>

\* ------------------------------------------------ argument variant generator

\* cap of the expansion loop ("if count > 10: break")
VariantCap == 10

\* the set {snake, camel} in its iteration order
variants_for_key(k) ==
    LET snake == Snake(k)
        camel == Camel(k)
    IN IF snake = camel THEN <<snake>>
       ELSE IF snake \in camel_first THEN <<camel, snake>>
            ELSE <<snake, camel>>

RECURSIVE backtrack(_, _, _, _)
\* the generator backtrack(i, current): out is what it yields, cur the shared
\* dict `current` when it is exhausted (i counts from 1). The result of each
\* recursive call is bound as a set element (r1, r2), so that it is
\* computed once.
backtrack(i, current, args, variant_sets) ==
    IF i = Len(args) + 1
    THEN [out |-> <<current>>, cur |-> current]
    ELSE LET vs == variant_sets[i]
             val == args[i][2]
         IN CHOOSE r \in
              { IF Len(vs) = 1
                THEN [out |-> r1.out, cur |-> DictPop(r1.cur, vs[1])]
                ELSE CHOOSE rr \in
                       { [out |-> r1.out \o r2.out,
                          cur |-> DictPop(r2.cur, vs[2])] :
                         r2 \in {backtrack(i + 1, DictSet(r1.cur, vs[2], val),
                                           args, variant_sets)} } : TRUE
                : r1 \in {backtrack(i + 1, DictSet(current, vs[1], val),
                                    args, variant_sets)} } : TRUE

\* the argument sets _argument_variants yields, in order
argument_variants(args) ==
    IF args = << >> THEN << << >> >>
    ELSE LET variant_sets == [i \in 1..Len(args) |-> variants_for_key(args[i][1])]
         IN Take(backtrack(1, << >>, args, variant_sets).out, VariantCap + 1)

\* ------------------------------------------------------------ JSON values
\* a JSON value carries its Python type: a dict holds its items as a function
\* from keys to values

None == [ty |-> "none"]
JDict(items) == [ty |-> "dict", items |-> items]
JInt(n) == [ty |-> "int", val |-> n]
JStr(s) == [ty |-> "str", val |-> s]
JList(xs) == [ty |-> "list", val |-> xs]
JBool(b) == [ty |-> "bool", val |-> b]

EmptyDict == JDict([k \in {} |-> None])

IsEmpty(d) == DOMAIN d.items = {}

IsDict(v) == v.ty = "dict"

\* dict.get(key)
Get(d, key) == IF key \in DOMAIN d.items THEN d.items[key] ELSE None

\* the dict union a | b
Union(a, b) ==
    JDict([k \in DOMAIN a.items \cup DOMAIN b.items |->
              IF k \in DOMAIN b.items THEN b.items[k] ELSE a.items[k]])

\* the JSON-RPC error code of "invalid parameters"
InvalidParamsCode == -32602

ResultOk == JDict([result |-> JDict([ok |-> JBool(TRUE)])])
ErrInvalid ==
    JDict([error |-> JDict([code |-> JInt(InvalidParamsCode),
                            message |-> JStr("Invalid params")])])
ErrOther ==
    JDict([error |-> JDict([code |-> JInt(-32601),
                            message |-> JStr("Method not found")])])
\* an error member that is no mapping
ErrText == JDict([error |-> JStr("boom")])

\* ------------------------------------------------------ response decoding
\* a piece of text is JSON text (with the value it denotes), text that is no
\* JSON, or blank

Json(v) == [text |-> "json", value |-> v]
Garbage == [text |-> "garbage"]
Blank == [text |-> "blank"]

\* json.loads: ok is FALSE where it raises
json_loads(t) ==
    IF t.text = "json" THEN [ok |-> TRUE, value |-> t.value] ELSE [ok |-> FALSE]

\* a body is a sequence of lines [prefix, payload]: prefix "data:" for a line
\* that starts with the SSE data marker, "event:" for another SSE field, ""
\* for a plain line (payload is its text) and "..data:" for a plain line in
\* which the marker occurs after the start. A JSON document is one plain
\* line; blank plain lines around it are white space.
DataMarker == "data:"

IsPlain(line) == line.prefix \in {"", "..data:"}

\* 'data:' in resp.text
ContainsDataMarker(body) ==
    \E i \in 1..Len(body) : body[i].prefix \in {DataMarker, "..data:"}

\* resp.json(): ok is FALSE where it raises
resp_json(body) ==
    LET text == SelectSeq(body, LAMBDA l : ~(IsPlain(l) /\ l.payload.text = "blank"))
    IN IF Len(text) = 1 /\ IsPlain(text[1]) THEN json_loads(text[1].payload)
       ELSE [ok |-> FALSE]

RECURSIVE sse_scan(_, _)
\* the loop over resp.text.splitlines(): data is the last dict parsed so far
sse_scan(lines, data) ==
    IF lines = << >> THEN data
    ELSE LET line == Head(lines)
             parsed == json_loads(line.payload)
         IN IF /\ line.prefix = DataMarker
               /\ line.payload.text # "blank"
               /\ parsed.ok
               /\ IsDict(parsed.value)
            THEN sse_scan(Tail(lines), parsed.value)
            ELSE sse_scan(Tail(lines), data)

\* a mutant: the first dict of the stream wins
decode_first_wins(body) ==
    LET firsts == SelectSeq(body, LAMBDA l : /\ l.prefix = DataMarker
                                              /\ l.payload.text = "json"
                                              /\ IsDict(l.payload.value))
        data == IF firsts = << >> THEN EmptyDict ELSE firsts[1].payload.value
    IN IF IsEmpty(data)
       THEN LET data_json == resp_json(body)
            IN IF data_json.ok /\ IsDict(data_json.value) THEN data_json.value
               ELSE EmptyDict
       ELSE data

\* a mutant: a body that decodes to nothing is an error of the call
decode_strict(body) ==
    LET data == IF ContainsDataMarker(body) THEN sse_scan(body, EmptyDict)
                ELSE EmptyDict
    IN IF IsEmpty(data)
       THEN LET data_json == resp_json(body)
            IN IF data_json.ok /\ IsDict(data_json.value) THEN data_json.value
               ELSE None
       ELSE data

\* lines 49-67 of call: the mapping decoded from the body
decode(body) ==
    LET data == IF ContainsDataMarker(body) THEN sse_scan(body, EmptyDict)
                ELSE EmptyDict
    IN IF IsEmpty(data)
       THEN LET data_json == resp_json(body)
            IN IF data_json.ok /\ IsDict(data_json.value) THEN data_json.value
               ELSE EmptyDict
       ELSE data

\* ------------------------------------------------------------- transport

\* a header value is "absent" when the response does not carry the header
Truthy(sid) == sid \notin {"absent", ""}

\* what session.post does: it raises (network failure, timeout) or returns
\* a response, whatever its status
Raised == [kind |-> "raise"]
Response(status, sid, body) ==
    [kind |-> "response", status |-> status, sid |-> sid, body |-> body]

\* a mutant: a response without the header clears the stored session id
capture_session_clear(stored, sid) == IF Truthy(sid) THEN sid ELSE "absent"

\* lines 68-70 of call: the stored session id after a response
capture_session(stored, sid) == IF Truthy(sid) THEN sid ELSE stored

\* what McpClient.call gives its caller: the decoded mapping, or the
\* exception of session.post, which no handler of call catches
call_result(outcome) ==
    IF outcome.kind = "raise" THEN [kind |-> "raise"]
    ELSE [kind |-> "return", value |-> decode(outcome.body)]

\* one line of the transport log: the request posted (with the session
\* header it carried), what session.post did, and what call gave back
Exchange(method, params, outcome) ==
    [method |-> method, params |-> params, sid |-> session_sid,
     outcome |-> outcome, result |-> call_result(outcome)]

\* McpClient.call as a step: post the request, keep the session header of
\* the response
call(method, params, outcome) ==
    /\ wire' = Append(wire, Exchange(method, params, outcome))
    /\ session_sid' = IF outcome.kind = "raise" THEN session_sid
                      ELSE capture_session(session_sid, outcome.sid)

\* a mutant: every error response counts as invalid parameters
is_invalid_params_any_error(resp) ==
    IsDict(resp) /\ IsDict(Get(resp, "error"))

\* a mutant: a response without a result counts as invalid parameters
is_invalid_params_or_empty(resp) ==
    \/ IsDict(resp) /\ Get(resp, "result") = None /\ ~IsDict(Get(resp, "error"))
    \/ LET err == IF IsDict(resp) THEN Get(resp, "error") ELSE None
       IN IF ~IsDict(err) THEN FALSE
          ELSE LET code == Get(err, "code")
               IN code.ty = "int" /\ code.val = InvalidParamsCode

is_invalid_params(resp) ==
    LET err == IF IsDict(resp) THEN Get(resp, "error") ELSE None
    IN IF ~IsDict(err) THEN FALSE
       ELSE LET code == Get(err, "code")
            IN code.ty = "int" /\ code.val = InvalidParamsCode

\* ------------------------------------------------------------ call_tool

\* a dict whose items are an argument mapping (key order kept)
JArgs(args) == [ty |-> "dict", pairs |-> args]

\* two argument mappings are equal as Python dicts
DictEq(a, b) ==
    {a[i] : i \in 1..Len(a)} = {b[i] : i \in 1..Len(b)}

\* a mutant: the cache key holds the items, not only the keys
SignatureWithValues(canonical, args) ==
    <<canonical, {args[i] : i \in 1..Len(args)}>>

\* a mutant: the cache key holds the tool name only
SignatureNameOnly(canonical, args) == <<canonical, {}>>

\* (canonical, frozenset(args.keys()))
Signature(canonical, args) == <<canonical, DictKeys(args)>>

\* the synthetic response of a suppressed call (line 109)
Suppressed(canonical) ==
    JDict([error |-> JDict([code |-> JInt(InvalidParamsCode),
                            message |-> JStr("suppressed cached invalid params")]),
           tool |-> JStr(canonical)])

\* a mutant: the response is annotated with the tool name only
AnnotateToolOnly(resp, canonical, args) ==
    Union(resp, JDict([_tool |-> JStr(canonical)]))

\* a mutant: once a direct result is stored, it is what gets annotated
AnnotateStoredResult(resp, canonical, args) ==
    Union(IF frame.result.ty = "none" THEN resp ELSE frame.result,
          JDict([_tool |-> JStr(canonical), _args |-> JArgs(args)]))

\* resp | {'_tool': canonical, '_args': args}
Annotate(resp, canonical, args) ==
    Union(resp, JDict([_tool |-> JStr(canonical), _args |-> JArgs(args)]))

Return(value) == [kind |-> "return", value |-> value]
Raise == [kind |-> "raise"]
NoReturn == [kind |-> "none"]

ToolsCall(canonical, args) == [name |-> canonical, arguments |-> args]

NoFrame ==
    [tool |-> << >>, arguments |-> << >>, canonical |-> << >>, args |-> << >>,
     signature |-> <<<< >>, {}>>, result |-> None, variants |-> << >>,
     cache0 |-> {}]

\* ----- history kept beside the program

\* the request of exchange e was answered by the error object of JSON-RPC
\* "invalid parameters"
AnsweredInvalidParams(e) ==
    /\ e.result.kind = "return"
    /\ "error" \in DOMAIN e.result.value.items
    /\ e.result.value.items["error"].ty = "dict"
    /\ "code" \in DOMAIN e.result.value.items["error"].items
    /\ e.result.value.items["error"].items["code"] = JInt(InvalidParamsCode)

RequestSignature(e) == <<e.params.name, DictKeys(e.params.arguments)>>

RejectedBy(e) == IF AnsweredInvalidParams(e) THEN {RequestSignature(e)} ELSE {}

\* every attempt of the log was answered by invalid parameters
TotalFailure(log) ==
    /\ log # << >>
    /\ \A i \in 1..Len(log) : AnsweredInvalidParams(log[i])

\* ----- inputs of the model

DatabaseName == <<"database", "_", "name">>
DatabaseHyphenName == <<"database", "-", "name">>
Database == <<"database">>
Table == <<"table">>

ToolInputs == {<<"tableList">>, <<TD, BASE, "tableList">>, <<"distinctCategories">>}

ArgInputs ==
    { << >>,
      << <<DatabaseName, "SALES">> >>,
      << <<DatabaseName, "HR">> >>,
      << <<Database, "SALES">> >>,
      << <<DatabaseHyphenName, "SALES">> >>,
      << <<DatabaseName, "SALES">>, <<Table, "T">> >>,
      << <<Table, "T">>, <<DatabaseName, "HR">> >> }

\* snake spellings of the model's keys that have a distinct camel spelling
TwoSpellings == {DatabaseName}

PlainBody(text) == << [prefix |-> "", payload |-> text] >>
SseBody(text) ==
    << [prefix |-> "event:", payload |-> Garbage],
       [prefix |-> DataMarker, payload |-> text] >>

\* the HTTP statuses that are no failure
Status2xx == 200..299

\* what the server of the call_tool specification may answer to a request
ServerOutcomes ==
    {Raised}
    \cup { Response(200, "abc123", b) :
             b \in {PlainBody(Json(ResultOk)), PlainBody(Json(ErrInvalid)),
                    PlainBody(Json(ErrOther)), PlainBody(Json(ErrText)),
                    PlainBody(Garbage), SseBody(Json(ResultOk))} }
    \cup { Response(500, "absent", b) :
             b \in {PlainBody(Json(ErrInvalid)), PlainBody(Garbage)} }

\* ----- the steps of McpClient.call_tool

\* a mutant: the direct attempt is made without consulting the cache
call_tool_start_unchecked(tool, arguments) ==
    /\ pc = "idle"
    /\ wire' = << >>
    /\ LET canonical == normalize_tool_name(tool)
       IN frame' = [tool |-> tool, arguments |-> arguments,
                    canonical |-> canonical, args |-> arguments,
                    signature |-> Signature(canonical, arguments),
                    result |-> None, variants |-> << >>,
                    cache0 |-> failure_cache]
    /\ ret' = NoReturn
    /\ pc' = "direct"
    /\ UNCHANGED <<camel_first, session_sid, failure_cache, rejected, failed>>

\* lines 102-109: canonicalise, copy the arguments, consult the cache
call_tool_start(tool, arguments) ==
    /\ pc = "idle"
    /\ wire' = << >>
    /\ LET canonical == normalize_tool_name(tool)
           args == arguments
           signature == Signature(canonical, args)
       IN /\ frame' = [tool |-> tool, arguments |-> arguments,
                       canonical |-> canonical, args |-> args,
                       signature |-> signature, result |-> None,
                       variants |-> << >>, cache0 |-> failure_cache]
          /\ IF signature \in failure_cache
             THEN /\ ret' = Return(Suppressed(canonical))
                  /\ pc' = "idle"
             ELSE /\ ret' = NoReturn
                  /\ pc' = "direct"
    /\ UNCHANGED <<camel_first, session_sid, failure_cache, rejected, failed>>

\* lines 112-113 and 124: the direct attempt
call_tool_direct(outcome) ==
    /\ pc = "direct"
    /\ call("tools/call", ToolsCall(frame.canonical, frame.args), outcome)
    /\ rejected' = rejected \cup RejectedBy(wire'[Len(wire')])
    /\ LET result == call_result(outcome)
       IN IF result.kind = "raise"
          THEN /\ ret' = Raise
               /\ pc' = "idle"
               /\ UNCHANGED frame
          ELSE IF is_invalid_params(result.value)
               THEN /\ frame' = [frame EXCEPT
                                   !.result = result.value,
                                   !.variants = argument_variants(frame.args)]
                    /\ pc' = "variants"
                    /\ UNCHANGED ret
               ELSE /\ frame' = [frame EXCEPT !.result = result.value]
                    /\ ret' = Return(Annotate(result.value, frame.canonical,
                                              frame.args))
                    /\ pc' = "idle"
    /\ UNCHANGED <<camel_first, failure_cache, failed>>

\* lines 115-118: a variant whose signature is cached is passed over
call_tool_skip ==
    /\ pc = "variants"
    /\ frame.variants # << >>
    /\ Signature(frame.canonical, Head(frame.variants)) \in failure_cache
    /\ frame' = [frame EXCEPT !.variants = Tail(@)]
    /\ UNCHANGED <<camel_first, session_sid, failure_cache, pc, ret, wire,
                   rejected, failed>>

\* a mutant: the variant is written into the caller's mapping and sent
call_tool_variant_in_place(outcome) ==
    /\ pc = "variants"
    /\ frame.variants # << >>
    /\ LET variant_args == Head(frame.variants)
           variant_signature == Signature(frame.canonical, variant_args)
           variant_result == call_result(outcome)
       IN /\ variant_signature \notin failure_cache
          /\ call("tools/call", ToolsCall(frame.canonical, variant_args), outcome)
          /\ rejected' = rejected \cup RejectedBy(wire'[Len(wire')])
          /\ IF variant_result.kind = "raise"
             THEN /\ ret' = Raise
                  /\ pc' = "idle"
                  /\ frame' = [frame EXCEPT !.arguments = variant_args]
                  /\ UNCHANGED failure_cache
             ELSE IF ~is_invalid_params(variant_result.value)
                  THEN /\ ret' = Return(Annotate(variant_result.value,
                                                 frame.canonical, variant_args))
                       /\ pc' = "idle"
                       /\ frame' = [frame EXCEPT !.arguments = variant_args]
                       /\ UNCHANGED failure_cache
                  ELSE /\ failure_cache' = failure_cache \cup {variant_signature}
                       /\ frame' = [frame EXCEPT !.variants = Tail(@),
                                                 !.arguments = variant_args]
                       /\ UNCHANGED <<ret, pc>>
    /\ UNCHANGED <<camel_first, failed>>

\* lines 115-122: the attempt with the next variant
call_tool_variant(outcome) ==
    /\ pc = "variants"
    /\ frame.variants # << >>
    /\ LET variant_args == Head(frame.variants)
           variant_signature == Signature(frame.canonical, variant_args)
           variant_result == call_result(outcome)
       IN /\ variant_signature \notin failure_cache
          /\ call("tools/call", ToolsCall(frame.canonical, variant_args), outcome)
          /\ rejected' = rejected \cup RejectedBy(wire'[Len(wire')])
          /\ IF variant_result.kind = "raise"
             THEN /\ ret' = Raise
                  /\ pc' = "idle"
                  /\ UNCHANGED <<frame, failure_cache>>
             ELSE IF ~is_invalid_params(variant_result.value)
                  THEN /\ ret' = Return(Annotate(variant_result.value,
                                                 frame.canonical, variant_args))
                       /\ pc' = "idle"
                       /\ UNCHANGED <<frame, failure_cache>>
                  ELSE /\ failure_cache' = failure_cache \cup {variant_signature}
                       /\ frame' = [frame EXCEPT !.variants = Tail(@)]
                       /\ UNCHANGED <<ret, pc>>
    /\ UNCHANGED <<camel_first, failed>>

\* lines 123-124: every variant was tried or passed over
call_tool_exhausted ==
    /\ pc = "variants"
    /\ frame.variants = << >>
    /\ failure_cache' = failure_cache \cup {frame.signature}
    /\ ret' = Return(Annotate(frame.result, frame.canonical, frame.args))
    /\ pc' = "idle"
    /\ failed' = IF TotalFailure(wire)
                 THEN failed \cup {<<frame.canonical, DictKeys(frame.arguments)>>}
                 ELSE failed
    /\ UNCHANGED <<camel_first, session_sid, frame, wire, rejected>>

\* ----- the client after construction

NoName == << >>

\* McpClient.__init__: no session id, no failure cache yet
InitClient ==
    /\ camel_first \in SUBSET TwoSpellings
    /\ session_sid = "absent"
    /\ failure_cache = {}
    /\ pc = "idle"
    /\ frame = NoFrame
    /\ ret = NoReturn
    /\ wire = << >>
    /\ calls = 0
    /\ rejected = {}
    /\ failed = {}

\* the Python process started with the hash order of camel_first: a client,
\* no session id, no failure cache yet
ClientIdle ==
    /\ session_sid = "absent"
    /\ failure_cache = {}
    /\ pc = "idle"
    /\ frame = NoFrame
    /\ ret = NoReturn
    /\ wire = << >>
    /\ calls = 0
    /\ rejected = {}
    /\ failed = {}

\* the generator has not been run
NoGenerator ==
    /\ gen_args = << >>
    /\ gen_runs = << >>

\* DiscoveryResults(): every field empty (the dicts keep insertion order)
FreshResults ==
    [databases |-> << >>, tables |-> << >>, ddl |-> << >>, previews |-> << >>]

\* a fresh accumulator to which nothing was applied
NoDiscovery ==
    /\ results = FreshResults
    /\ apply_ret = "none"
    /\ applied = << >>

\* nothing was posted in the envelope specification
NoEnvelope == sent = << >>

\* the attributes of a McpClient instance after construction, with the
\* history kept for it
FreshClient ==
    [session_sid |-> "absent", failure_cache |-> {}, pc |-> "idle",
     frame |-> NoFrame, ret |-> NoReturn, wire |-> << >>, rejected |-> {},
     failed |-> {}, captured |-> {}]

\* the client variables hold instance 1; instance 2 is as constructed
TwoFreshClients ==
    /\ lane = 1
    /\ parked = FreshClient
    /\ captured = {}

\* DataQualityOrchestrator.__init__: nothing inventoried, planned or
\* profiled, no handshake; target_db is what the environment names as
\* DATABASE (None when unset). local_db, i, j and k are locals of the
\* running method; shape, mode and failures describe the server of the run
NewOrchestrator(target_db) ==
    [target_db |-> target_db, handshake_ok |-> FALSE,
     schema_inventory |-> None, tool_inventory |-> None,
     steps |-> << >>, dq_tools |-> << >>, rich_quality |-> << >>,
     skipped |-> << >>, quality_results |-> << >>,
     local_db |-> None, i |-> 0, j |-> 0, k |-> 0, summary |-> "none",
     shape |-> "rows", mode |-> "ok", failures |-> 0]

\* an orchestrator on which run_full was not called
NoRun ==
    /\ opc = "new"
    /\ orch = NewOrchestrator(None)
    /\ issued = << >>

Init ==
    /\ InitClient
    /\ name_in = NoName
    /\ name_once = NoName
    /\ name_twice = NoName
    /\ stage = 0
    /\ NoGenerator
    /\ NoDiscovery
    /\ NoEnvelope
    /\ TwoFreshClients
    /\ NoRun

CanonVars == <<name_in, name_once, name_twice, stage>>

\* ----- the call_tool specification: a caller invoking call_tool

CallToolStart ==
    /\ calls < MaxCalls
    /\ calls' = calls + 1
    /\ \E tool \in ToolInputs, arguments \in ArgInputs :
          call_tool_start(tool, arguments)
    /\ UNCHANGED <<CanonVars, GenVars, DiscVars, EnvelopeVars, LaneVars,
                   OrchVars>>

CallToolDirect ==
    /\ \E outcome \in ServerOutcomes : call_tool_direct(outcome)
    /\ UNCHANGED <<calls, CanonVars, GenVars, DiscVars, EnvelopeVars, LaneVars,
                   OrchVars>>

CallToolSkip == call_tool_skip /\ UNCHANGED <<calls, CanonVars, GenVars, DiscVars, EnvelopeVars, LaneVars,
                   OrchVars>>

CallToolVariant ==
    /\ \E outcome \in ServerOutcomes : call_tool_variant(outcome)
    /\ UNCHANGED <<calls, CanonVars, GenVars, DiscVars, EnvelopeVars, LaneVars,
                   OrchVars>>

CallToolExhausted == call_tool_exhausted /\ UNCHANGED <<calls, CanonVars, GenVars, DiscVars, EnvelopeVars, LaneVars,
                   OrchVars>>

Next ==
    \/ CallToolStart
    \/ CallToolDirect
    \/ CallToolSkip
    \/ CallToolVariant
    \/ CallToolExhausted

Spec == Init /\ [][Next]_vars

\* ------------------------------------------------- claims on call_tool

\* the invocation recorded in frame and wire has returned or raised
Finished == pc = "idle" /\ calls > 0 /\ ret # NoReturn

\* the signature the caller's tool name and arguments stand for
CallerSignature == <<normalize_tool_name(frame.tool), DictKeys(frame.arguments)>>

\* C1: once a call_tool had its direct attempt and every tried variant
\* answered by invalid-parameters, every later call_tool with the same
\* canonical name and the same key set returns the synthetic suppressed error
\* and sends no request; no signature ever leaves the cache.
C1_SuppressedAfterTotalFailure ==
    [][ /\ failure_cache \subseteq failure_cache'
        /\ (calls' = calls + 1
            /\ <<normalize_tool_name(frame'.tool), DictKeys(frame'.arguments)>>
                  \in failed)
           => /\ pc' = "idle"
              /\ wire' = << >>
              /\ ret' = Return(Suppressed(normalize_tool_name(frame'.tool))) ]_vars

\* a second call with another value under the same key is suppressed
C1_Witness ==
    /\ Finished
    /\ CallerSignature \in failed
    /\ frame.arguments = << <<DatabaseName, "HR">> >>
    /\ wire = << >>
    /\ ret = Return(Suppressed(<<BASE, "tableList">>))

\* the scenario of C2: tableList called with {database_name: SALES}
C2_Scenario ==
    /\ Finished
    /\ frame.tool = <<"tableList">>
    /\ frame.arguments = << <<DatabaseName, "SALES">> >>
    /\ frame.cache0 = {}

\* the server of C2: it answers invalid-parameters to arguments keyed
\* database_name (and to any other spelling) and succeeds for {database: v}
C2_Server ==
    \A i \in 1..Len(wire) :
        /\ wire[i].outcome.kind = "response"
        /\ wire[i].outcome.status \in Status2xx
        /\ IF DictEq(wire[i].params.arguments, << <<Database, "SALES">> >>)
           THEN wire[i].result.value = ResultOk
           ELSE AnsweredInvalidParams(wire[i])

\* C2: against a server that rejects database_name and accepts database,
\* call_tool("tableList", {database_name: v}) sends exactly 2 requests and
\* returns the success annotated with _tool = base_tableList and
\* _args = {database: v}.
C2_AliasWidening ==
    (C2_Scenario /\ C2_Server)
    => /\ Len(wire) = 2
       /\ ret = Return(Annotate(ResultOk, <<BASE, "tableList">>,
                                << <<Database, "SALES">> >>))

\* C3: every signature in the failure cache is the name and key set of a
\* tools/call request this client sent and that was answered by an
\* invalid-parameters error.
C3_RecordedOnlyAfterLiveRejection == failure_cache \subseteq rejected

\* a stale-key variant was sent, rejected and recorded
C3_Witness ==
    /\ <<<<BASE, "tableList">>, {DatabaseName, Table, <<"database", "Name">>}>>
          \in failure_cache
    /\ \E i \in 1..Len(wire) :
          /\ RequestSignature(wire[i])
                = <<<<BASE, "tableList">>, {DatabaseName, Table, <<"database", "Name">>}>>
          /\ AnsweredInvalidParams(wire[i])

\* C4: when the direct attempt is answered by anything but an
\* invalid-parameters error, call_tool returns that response (annotated)
\* after exactly one request and leaves the failure cache as it was.
C4_DirectAnswerReturned ==
    (/\ wire # << >>
     /\ wire[1].result.kind = "return"
     /\ ~AnsweredInvalidParams(wire[1]))
    => /\ pc = "idle"
       /\ Len(wire) = 1
       /\ ret = Return(Annotate(wire[1].result.value, frame.canonical,
                                frame.arguments))
       /\ failure_cache = frame.cache0

\* an error with another code came back and was returned at once
C4_Witness ==
    /\ Finished
    /\ Len(wire) = 1
    /\ wire[1].result = Return(ErrOther)
    /\ ret = Return(Annotate(ErrOther, <<QLTY, "distinctCategories">>, << >>))

\* a body from which no JSON value can be read
Unparsable(body) ==
    /\ ~resp_json(body).ok
    /\ ~\E i \in 1..Len(body) :
          body[i].prefix = DataMarker /\ json_loads(body[i].payload).ok

\* the attempt of exchange e ended in a transport failure
TransportFailure(e) ==
    \/ e.outcome.kind = "raise"
    \/ /\ e.outcome.kind = "response"
       /\ \/ e.outcome.status \notin Status2xx
          \/ Unparsable(e.outcome.body)

\* C5: every transport error of a send reaches the caller of call as an
\* empty result, not as an exception, and call_tool does not raise either;
\* the send is not repeated.
C5_TransportErrorIsEmptyResult ==
    \A i \in 1..Len(wire) :
        TransportFailure(wire[i])
        => /\ wire[i].result = Return(EmptyDict)
           /\ ret.kind # "raise"
           /\ i = Len(wire)

\* C6: an attempt that ends in a transport failure, whatever the body of a
\* non-2xx response holds, starts no variant loop and adds no signature to
\* the failure cache.
C6_TransportFailureNotRetriedNorRecorded ==
    [][ (Len(wire') = Len(wire) + 1 /\ TransportFailure(wire'[Len(wire')]))
        => (pc' # "variants" /\ failure_cache' = failure_cache) ]_vars

\* the value is the error object of JSON-RPC "invalid parameters"
InvalidParamsError(v) ==
    /\ v.ty = "dict"
    /\ "error" \in DOMAIN v.items
    /\ v.items["error"].ty = "dict"
    /\ "code" \in DOMAIN v.items["error"].items
    /\ v.items["error"].items["code"] = JInt(InvalidParamsCode)

\* C16: when call_tool returns a response of the server that is no
\* invalid-parameters error, the returned mapping is that response with _tool
\* set to the canonical tool name and _args set to the argument mapping sent
\* in the attempt that was so answered: the caller's arguments if it was the
\* direct attempt, the variant otherwise.
C16_AnnotatedWithAttempt ==
    (/\ Finished
     /\ wire # << >>
     /\ ret.kind = "return"
     /\ ~InvalidParamsError(ret.value))
    => LET last == wire[Len(wire)]
       IN /\ ret.value =
                Union(last.result.value,
                      JDict([_tool |-> JStr(normalize_tool_name(frame.tool)),
                             _args |-> JArgs(last.params.arguments)]))
          /\ Len(wire) = 1 => last.params.arguments = frame.arguments

\* the camel variant succeeded after database_name was rejected, and the
\* answer names the variant that was sent
C16_Witness ==
    /\ Finished
    /\ frame.tool = <<"tableList">>
    /\ frame.arguments = << <<DatabaseName, "SALES">> >>
    /\ Len(wire) >= 2
    /\ <<"database", "Name">> \in DictKeys(wire[Len(wire)].params.arguments)
    /\ wire[Len(wire)].result = Return(ResultOk)
    /\ ret.kind = "return"
    /\ Get(ret.value, "_tool") = JStr(<<BASE, "tableList">>)
    /\ Get(ret.value, "_args") = JArgs(wire[Len(wire)].params.arguments)
    /\ Get(ret.value, "result") = Get(ResultOk, "result")

\* C17: when the direct attempt and every variant attempt were answered by
\* invalid-parameters, call_tool returns the response of the last attempt
\* made, annotated with the argument mapping of that last attempt.
C17_LastResponseReturned ==
    (Finished /\ TotalFailure(wire))
    => LET last == wire[Len(wire)]
       IN /\ ret.kind = "return"
          /\ \A k \in DOMAIN last.result.value.items :
                Get(ret.value, k) = last.result.value.items[k]
          /\ Get(ret.value, "_args").ty = "dict"
          /\ DictEq(Get(ret.value, "_args").pairs, last.params.arguments)

\* C18: whether call_tool returns the suppressed error without sending
\* depends only on the canonical tool name, the set of argument keys and the
\* cache: a call is suppressed exactly when that pair is in the cache,
\* whatever the values, the insertion order of the keys and the spelling of
\* the tool name.
C18_SuppressionBySignatureOnly ==
    [][ calls' = calls + 1
        => ((pc' = "idle" /\ wire' = << >>)
            <=> <<normalize_tool_name(frame'.tool), DictKeys(frame'.arguments)>>
                   \in failure_cache) ]_vars

\* after tableList failed with {database_name, table}, td_base_tableList
\* with the keys in the other order and another value is suppressed
C18_Witness ==
    /\ Finished
    /\ frame.tool = <<TD, BASE, "tableList">>
    /\ frame.arguments = << <<Table, "T">>, <<DatabaseName, "HR">> >>
    /\ <<<<BASE, "tableList">>, {DatabaseName, Table}>> \in failed
    /\ wire = << >>
    /\ ret = Return(Suppressed(<<BASE, "tableList">>))

\* ------------------------------------------- the handshake and list_tools

InitializeParams ==
    [protocolVersion |-> "2025-03-26",
     clientInfo |-> [name |-> "dq-orchestrator", version |-> "0.1.0"]]

\* McpClient.initialize: one call, its result (or exception) handed on
initialize(outcome) ==
    /\ pc = "idle"
    /\ call("initialize", InitializeParams, outcome)
    /\ ret' = call_result(outcome)
    /\ UNCHANGED <<camel_first, failure_cache, pc, frame, rejected, failed>>

\* McpClient.list_tools: one call; an exception becomes an empty dict
list_tools(outcome) ==
    /\ pc = "idle"
    /\ call("tools/list", << >>, outcome)
    /\ ret' = IF call_result(outcome).kind = "raise" THEN Return(EmptyDict)
              ELSE call_result(outcome)
    /\ UNCHANGED <<camel_first, failure_cache, pc, frame, rejected, failed>>

\* ----- the session specification: plain calls against a server that sets,
\* changes or omits the session header

SessionIds == {"absent", "", "abc123", "def456"}

SessionOutcomes ==
    {Raised} \cup {Response(200, sid, PlainBody(Json(ResultOk))) : sid \in SessionIds}

SessionInitialize ==
    /\ Len(wire) < MaxRequests
    /\ \E outcome \in SessionOutcomes : initialize(outcome)
    /\ UNCHANGED <<calls, CanonVars, GenVars, DiscVars, EnvelopeVars, LaneVars,
                   OrchVars>>

SessionListTools ==
    /\ Len(wire) < MaxRequests
    /\ \E outcome \in SessionOutcomes : list_tools(outcome)
    /\ UNCHANGED <<calls, CanonVars, GenVars, DiscVars, EnvelopeVars, LaneVars,
                   OrchVars>>

SessionNext == SessionInitialize \/ SessionListTools

SpecSession == Init /\ [][SessionNext]_vars

\* ----- the decoding specification: one call, any body of up to MaxLines
\* lines

Texts == {Json(ResultOk), Json(ErrInvalid), Json(EmptyDict), Json(JList(<< >>)),
          Garbage, Blank}

Lines == [prefix : {DataMarker, "event:", "", "..data:"}, payload : Texts]

Bodies == UNION {[1..n -> Lines] : n \in 0..MaxLines}

DecodeOutcomes == {Response(200, "absent", b) : b \in Bodies}

DecodeCall ==
    /\ wire = << >>
    /\ \E outcome \in DecodeOutcomes : initialize(outcome)
    /\ UNCHANGED <<calls, CanonVars, GenVars, DiscVars, EnvelopeVars, LaneVars,
                   OrchVars>>

DecodeNext == DecodeCall

SpecDecode == Init /\ [][DecodeNext]_vars

\* ----- the canonicaliser specification: a name, canonicalised twice

\* tokens of a tool name in the canonicaliser specification
MaxNameLen == 4

NameTokens == {TD, BASE, QLTY, "custom"} \cup Aliases

NameInputs == UNION {[1..n -> NameTokens] : n \in 1..MaxNameLen}

CanonInit ==
    /\ InitClient
    /\ name_in \in NameInputs
    /\ name_once = NoName
    /\ name_twice = NoName
    /\ stage = 0
    /\ NoGenerator
    /\ NoDiscovery
    /\ NoEnvelope
    /\ TwoFreshClients
    /\ NoRun

ClientVars == <<camel_first, session_sid, failure_cache, pc, frame, ret, wire,
                calls, rejected, failed>>

CanonicalizeOnce ==
    /\ stage = 0
    /\ name_once' = normalize_tool_name(name_in)
    /\ stage' = 1
    /\ UNCHANGED <<ClientVars, GenVars, DiscVars, EnvelopeVars, LaneVars,
                   OrchVars, name_in, name_twice>>

CanonicalizeTwice ==
    /\ stage = 1
    /\ name_twice' = normalize_tool_name(name_once)
    /\ stage' = 2
    /\ UNCHANGED <<ClientVars, GenVars, DiscVars, EnvelopeVars, LaneVars,
                   OrchVars, name_in, name_once>>

CanonNext == CanonicalizeOnce \/ CanonicalizeTwice

SpecCanon == CanonInit /\ [][CanonNext]_vars

\* ------------------------------------------------ claims on the transport

RECURSIVE MostRecentSid(_)
\* the most recent non-empty session header among the responses of a log
MostRecentSid(log) ==
    IF log = << >> THEN "absent"
    ELSE LET last == log[Len(log)]
         IN IF last.outcome.kind = "response" /\ last.outcome.sid \notin {"absent", ""}
            THEN last.outcome.sid
            ELSE MostRecentSid(SubSeq(log, 1, Len(log) - 1))

\* C7: the session header sent on request n is the most recent non-empty
\* Mcp-Session-Id among responses 1..n-1, and absent if there is none; a
\* response without the header changes nothing.
C7_SessionHeaderPropagation ==
    /\ \A n \in 1..Len(wire) : wire[n].sid = MostRecentSid(SubSeq(wire, 1, n - 1))
    /\ session_sid = MostRecentSid(wire)

\* a header survives a response without one and is replaced by a later one
C7_Witness ==
    /\ Len(wire) = 4
    /\ wire[1].outcome.kind = "response" /\ wire[1].outcome.sid = "abc123"
    /\ wire[2].outcome.kind = "response" /\ wire[2].outcome.sid = "absent"
    /\ wire[3].sid = "abc123"
    /\ wire[3].outcome.kind = "response" /\ wire[3].outcome.sid = "def456"
    /\ wire[4].sid = "def456"

\* the data lines of a body whose payload parses as a JSON mapping
MappingLines(body) ==
    {i \in 1..Len(body) : /\ body[i].prefix = DataMarker
                          /\ body[i].payload.text = "json"
                          /\ body[i].payload.value.ty = "dict"}

Max(S) == CHOOSE x \in S : \A y \in S : y <= x

\* C8: when the body has data lines, call returns the payload of the last
\* data line that parses as JSON and is a mapping, whatever the other lines
\* hold.
C8_LastMappingLineWins ==
    \A i \in 1..Len(wire) :
        (/\ wire[i].outcome.kind = "response"
         /\ MappingLines(wire[i].outcome.body) # {})
        => wire[i].result
             = Return(wire[i].outcome.body[Max(MappingLines(wire[i].outcome.body))]
                         .payload.value)

\* two data lines with different mappings: the second is returned
C8_Witness ==
    /\ Len(wire) = 1
    /\ wire[1].outcome.body
         = << [prefix |-> DataMarker, payload |-> Json(ErrInvalid)],
              [prefix |-> DataMarker, payload |-> Json(ResultOk)] >>
    /\ ret = Return(ResultOk)

\* C9: whenever a response was received, call returns a mapping and does not
\* raise; the mapping is empty when neither the data lines nor the whole body
\* decode to a mapping.
C9_UndecodableIsEmptyMapping ==
    \A i \in 1..Len(wire) :
        wire[i].outcome.kind = "response"
        => /\ wire[i].result.kind = "return"
           /\ wire[i].result.value.ty = "dict"
           /\ (/\ MappingLines(wire[i].outcome.body) = {}
               /\ ~(resp_json(wire[i].outcome.body).ok
                    /\ resp_json(wire[i].outcome.body).value.ty = "dict"))
              => wire[i].result.value = EmptyDict

\* an SSE stream whose only data line is no JSON gives the empty mapping
C9_Witness ==
    /\ Len(wire) = 1
    /\ wire[1].outcome.body
         = << [prefix |-> "event:", payload |-> Garbage],
              [prefix |-> DataMarker, payload |-> Garbage] >>
    /\ ret = Return(EmptyDict)

\* --------------------------------------------- claims on the canonicaliser

\* C10: for every short alias of the lookup table, canonicalising the
\* canonical name gives the canonical name again.
C10_AliasIdempotent ==
    (stage = 2 /\ name_in \in DOMAIN mapping) => name_twice = name_once

\* missingValues goes to qlty_missingValues and stays there
C10_Witness ==
    /\ stage = 2
    /\ name_in = <<"missingValues">>
    /\ name_once = <<QLTY, "missingValues">>
    /\ name_twice = <<QLTY, "missingValues">>

\* C11: for every tool name, also one that holds a prefix token such as
\* td_base_ more than once or in the middle, canonicalising the canonical
\* name gives the canonical name again.
C11_Idempotent == stage = 2 => name_twice = name_once

\* ------------------------------------------ the generator specification
\* _argument_variants run on one argument mapping, again in the same Python
\* process or after the program was started anew (with another hash seed)

\* runs of the generator in one behaviour
MaxRuns == 2

TableName == <<"table", "_", "name">>
ColumnName == <<"column", "_", "name">>
SchemaName == <<"schema", "_", "name">>
ObjectName == <<"object", "_", "name">>

GenArgInputs ==
    { << >>,
      << <<Table, "v1">> >>,
      << <<DatabaseName, "v1">> >>,
      << <<DatabaseHyphenName, "v1">> >>,
      << <<<<"database", "Name">>, "v1">> >>,
      << <<DatabaseName, "v1">>, <<Table, "v2">> >>,
      << <<DatabaseName, "v1">>, <<TableName, "v2">> >>,
      << <<DatabaseHyphenName, "v1">>, <<DatabaseName, "v2">> >>,
      << <<DatabaseName, "v1">>, <<TableName, "v2">>, <<ColumnName, "v3">>,
         <<SchemaName, "v4">> >>,
      << <<DatabaseName, "v1">>, <<TableName, "v2">>, <<ColumnName, "v3">>,
         <<SchemaName, "v4">>, <<ObjectName, "v5">> >> }

\* the snake spellings of the keys of args that have another camel spelling
TwoSpellingsOf(args) ==
    {Snake(args[i][1]) : i \in {j \in 1..Len(args) :
                                   Snake(args[j][1]) # Camel(args[j][1])}}

\* everything of the client but the hash order of its process
ClientState == <<session_sid, failure_cache, pc, frame, ret, wire, calls,
                 rejected, failed>>

GenInit ==
    /\ gen_args \in GenArgInputs
    /\ gen_runs = << >>
    /\ camel_first \in SUBSET TwoSpellingsOf(gen_args)
    /\ ClientIdle
    /\ name_in = NoName
    /\ name_once = NoName
    /\ name_twice = NoName
    /\ stage = 0
    /\ NoDiscovery
    /\ NoEnvelope
    /\ TwoFreshClients
    /\ NoRun

\* list(self._argument_variants(args)) in the running process
GenerateVariants ==
    /\ Len(gen_runs) < MaxRuns
    /\ gen_runs' = Append(gen_runs, argument_variants(gen_args))
    /\ UNCHANGED <<camel_first, gen_args, ClientState, CanonVars, DiscVars,
                   EnvelopeVars, LaneVars, OrchVars>>

\* a new execution of the program: the hash order of str is drawn again
\* when the interpreter starts
StartNewProcess ==
    /\ gen_runs # << >>
    /\ Len(gen_runs) < MaxRuns
    /\ camel_first' \in SUBSET TwoSpellingsOf(gen_args)
    /\ UNCHANGED <<GenVars, ClientState, CanonVars, DiscVars, EnvelopeVars,
                   LaneVars, OrchVars>>

GenNext == GenerateVariants \/ StartNewProcess

SpecVariants == GenInit /\ [][GenNext]_vars

\* ------------------------------------- claims on the variant generator

\* C12: for any argument mapping, also one of 5 keys with two spellings
\* each, a run of the variant generator yields at most 10 argument sets.
C12_AtMostTenVariants ==
    \A r \in 1..Len(gen_runs) : Len(gen_runs[r]) <= 10

\* two runs yield the same argument sets (as Python dicts) in the same order
SameVariants(a, b) ==
    /\ Len(a) = Len(b)
    /\ \A i \in 1..Len(a) : DictEq(a[i], b[i])

\* C13: for a fixed argument mapping, any two runs of the generator, in the
\* same or in different executions of the program, yield the same argument
\* sets in the same order.
C13_GeneratorDeterministic ==
    \A i, j \in 1..Len(gen_runs) : SameVariants(gen_runs[i], gen_runs[j])

RECURSIVE Respell(_, _)
\* the mapping args with key i spelled choice[i] ("snake" or "camel")
Respell(args, choice) ==
    IF args = << >> THEN << >>
    ELSE LET n == Len(args)
             k == args[n][1]
         IN DictSet(Respell(SubSeq(args, 1, n - 1), SubSeq(choice, 1, n - 1)),
                    IF choice[n] = "snake" THEN Snake(k) ELSE Camel(k),
                    args[n][2])

\* C14: the generator takes the keys in insertion order and the snake
\* spelling before the camel spelling: the first variant spells every key in
\* snake case, in the order of the original keys, and the second differs
\* from it by the camel spelling of the last key.
C14_SnakeFirstLastKeyFastest ==
    \A r \in 1..Len(gen_runs) :
        LET n == Len(gen_args)
            run == gen_runs[r]
        IN n > 0
           => /\ run[1] = Respell(gen_args, [i \in 1..n |-> "snake"])
              /\ Snake(gen_args[n][1]) # Camel(gen_args[n][1])
                 => /\ Len(run) >= 2
                    /\ DictEq(run[2],
                              Respell(gen_args,
                                      [i \in 1..n |-> IF i = n THEN "camel"
                                                      ELSE "snake"]))

\* C15: every argument set the generator yields holds exactly one spelling
\* (snake or camel) of each original key and no other key, and each spelling
\* carries the value of its original key.
C15_OneSpellingPerKey ==
    \A r \in 1..Len(gen_runs) : \A v \in 1..Len(gen_runs[r]) :
        LET variant == gen_runs[r][v]
            Spellings(i) == {Snake(gen_args[i][1]), Camel(gen_args[i][1])}
        IN /\ \A i \in 1..Len(gen_args) :
                 Cardinality(Spellings(i) \cap DictKeys(variant)) = 1
           /\ \A e \in 1..Len(variant) :
                 \E i \in 1..Len(gen_args) :
                    /\ variant[e][1] \in Spellings(i)
                    /\ variant[e][2] = gen_args[i][2]

\* ------------------------------------------------- the discovery parser
\* DiscoveryParser (src/helpers/discovery_parser.py). A response handed to
\* apply is a Python value; its mappings keep the insertion order of their
\* keys (apply scans payload.items() in that order), so a mapping is
\* ODict(pairs) with pairs a sequence of <<key, value>>. A string value is
\* JStr of a sequence of tokens: words, "." and " ".

ODict(pairs) == [ty |-> "dict", pairs |-> pairs]

\* key in d
OHas(d, key) == \E i \in 1..Len(d.pairs) : d.pairs[i][1] = key

\* d.get(key)
OGet(d, key) ==
    IF OHas(d, key)
    THEN d.pairs[CHOOSE i \in 1..Len(d.pairs) : d.pairs[i][1] = key][2]
    ELSE None

\* the words of the model's strings, by the case of their letters
UpperWords == {"CREATE", "TABLE", "DB1", "DB2", "DB3", "SALES", "ORDERS"}
LowerWords == {"create", "table", "db1", "sales", "orders"}
WhiteSpace == {" "}

\* str.upper() of one token
UpperToken(t) == CASE t = "create" -> "CREATE"
                   [] t = "table" -> "TABLE"
                   [] t = "db1" -> "DB1"
                   [] t = "sales" -> "SALES"
                   [] t = "orders" -> "ORDERS"
                   [] OTHER -> t

\* str.upper()
upper(v) == [i \in 1..Len(v) |-> UpperToken(v[i])]

\* str.isupper(): no lower-case letter and at least one upper-case letter
isupper(v) ==
    /\ \A i \in 1..Len(v) : v[i] \notin LowerWords
    /\ \E i \in 1..Len(v) : v[i] \in UpperWords

\* sub in v
Contains(v, sub) ==
    \E i \in 1..(Len(v) - Len(sub) + 1) : SubSeq(v, i, i + Len(sub) - 1) = sub

\* str.endswith(stem) on a tool name
EndsWith(tool, stem) == tool # << >> /\ tool[Len(tool)] = stem

\* 'CREATE TABLE' in v.upper()
HasCreateTable(v) == Contains(upper(v), <<"CREATE", " ", "TABLE">>)

\* the characters of the class [A-Za-z0-9_\.]
IdentTokens == UpperWords \cup LowerWords \cup {".", "_"}

RECURSIVE SkipWhile(_, _, _)
\* the first position from i on whose token is not in S
SkipWhile(v, i, S) ==
    IF i <= Len(v) /\ v[i] \in S THEN SkipWhile(v, i + 1, S) ELSE i

\* CREATE\s+TABLE\s+([A-Za-z0-9_\.]+), ignoring case, matched at position i
MatchAt(v, i) ==
    LET j == SkipWhile(v, i + 1, WhiteSpace)
        k == SkipWhile(v, j + 1, WhiteSpace)
        e == SkipWhile(v, k, IdentTokens)
    IN IF /\ UpperToken(v[i]) = "CREATE"
          /\ j > i + 1 /\ j <= Len(v) /\ UpperToken(v[j]) = "TABLE"
          /\ k > j + 1
          /\ e > k
       THEN [ok |-> TRUE, group |-> SubSeq(v, k, e - 1)]
       ELSE [ok |-> FALSE]

\* re.search: the leftmost match
re_search(v) ==
    LET hits == {i \in 1..Len(v) : MatchAt(v, i).ok}
    IN IF hits = {} THEN [ok |-> FALSE]
       ELSE MatchAt(v, CHOOSE i \in hits : \A h \in hits : i <= h)

Digits == <<"1", "2", "3", "4", "5", "6", "7", "8", "9">>

\* f'table_{n}'
Placeholder(n) == <<"table_", Digits[n]>>

\* rows kept of a preview ("rows[:50]")
PreviewCap == 50

\* a value set() and "in" can hash
Hashable(v) == v.ty \notin {"dict", "list"}

\* Python's == on hashable JSON values: True == 1 and False == 0
PyKey(v) == IF v.ty = "bool" THEN JInt(IF v.val THEN 1 ELSE 0) ELSE v

PyEq(a, b) == PyKey(a).ty = PyKey(b).ty /\ PyKey(a) = PyKey(b)

RECURSIVE merge_all(_, _)
\* a mutant: every incoming value is appended
merge_all(target, new_values) ==
    IF new_values = << >> THEN [target |-> target, raised |-> FALSE]
    ELSE IF ~Hashable(Head(new_values))
         THEN [target |-> target, raised |-> TRUE]
         ELSE merge_all(Append(target, Head(new_values)), Tail(new_values))

RECURSIVE merge_front(_, _)
\* a mutant: a new value is put in front of the list
merge_front(target, new_values) ==
    IF new_values = << >> THEN [target |-> target, raised |-> FALSE]
    ELSE LET v == Head(new_values)
         IN IF ~Hashable(v) THEN [target |-> target, raised |-> TRUE]
            ELSE IF \E i \in 1..Len(target) : PyEq(target[i], v)
                 THEN merge_front(target, Tail(new_values))
                 ELSE merge_front(<<v>> \o target, Tail(new_values))

RECURSIVE merge_unique(_, _)
\* _merge_unique: target after the loop; raised when "v not in seen" meets
\* an unhashable v (TypeError), with what was appended before it
merge_unique(target, new_values) ==
    IF new_values = << >> THEN [target |-> target, raised |-> FALSE]
    ELSE LET v == Head(new_values)
         IN IF ~Hashable(v) THEN [target |-> target, raised |-> TRUE]
            ELSE IF \E i \in 1..Len(target) : PyEq(target[i], v)
                 THEN merge_unique(target, Tail(new_values))
                 ELSE merge_unique(Append(target, v), Tail(new_values))

RECURSIVE merge_keys(_, _, _)
\* for key in keys: if isinstance(payload.get(key), list):
\*     self._merge_unique(target, payload[key])
merge_keys(target, payload, keys) ==
    IF keys = << >> THEN [target |-> target, raised |-> FALSE]
    ELSE LET v == OGet(payload, Head(keys))
         IN IF v.ty = "list"
            THEN LET m == merge_unique(target, v.val)
                 IN IF m.raised THEN m
                    ELSE merge_keys(m.target, payload, Tail(keys))
            ELSE merge_keys(target, payload, Tail(keys))

\* _store_ddl: the ddl dict after the text is stored
store_ddl(ddl_text, ddl) ==
    LET match == re_search(ddl_text)
        table_name == IF match.ok THEN match.group ELSE Placeholder(Len(ddl) + 1)
    IN DictSet(ddl, table_name, JStr(ddl_text))

\* lines 32-38: the first string field that holds CREATE TABLE is stored
scan_ddl(payload, ddl) ==
    LET hits == {i \in 1..Len(payload.pairs) :
                    /\ payload.pairs[i][2].ty = "str"
                    /\ HasCreateTable(payload.pairs[i][2].val)}
    IN IF hits = {} THEN ddl
       ELSE store_ddl(payload.pairs[CHOOSE i \in hits : \A h \in hits : i <= h][2].val,
                      ddl)

RECURSIVE scan_previews(_, _, _, _)
\* lines 39-42: for key in ('rows', 'preview', 'sample')
scan_previews(tool, payload, previews, keys) ==
    IF keys = << >> THEN previews
    ELSE LET rows == OGet(payload, Head(keys))
         IN IF rows.ty = "list" /\ rows.val # << >> /\ rows.val[1].ty = "dict"
            THEN scan_previews(tool, payload,
                               DictSet(previews, tool, Take(rows.val, PreviewCap)),
                               Tail(keys))
            ELSE scan_previews(tool, payload, previews, Tail(keys))

\* a mutant: a database list needs a majority of upper-case names
classify_list_majority(tool, values, res) ==
    IF values = << >> THEN [res |-> res, raised |-> FALSE]
    ELSE IF \A i \in 1..Len(values) : values[i].ty = "str"
    THEN LET uppers == Cardinality({i \in 1..Len(values) : isupper(values[i].val)})
             contains_dot == \E i \in 1..Len(values) : Contains(values[i].val, <<".">>)
         IN IF ~contains_dot /\ 2 * uppers > Len(values) /\ EndsWith(tool, "databaseList")
            THEN [res |-> [res EXCEPT !.databases = merge_unique(@, values).target],
                  raised |-> FALSE]
            ELSE IF contains_dot \/ EndsWith(tool, "tableList")
                 THEN [res |-> [res EXCEPT !.tables = merge_unique(@, values).target],
                       raised |-> FALSE]
                 ELSE [res |-> res, raised |-> FALSE]
    ELSE [res |-> res, raised |-> FALSE]

\* _classify_list_payload
classify_list_payload(tool, values, res) ==
    IF values = << >> THEN [res |-> res, raised |-> FALSE]
    ELSE IF \A i \in 1..Len(values) : values[i].ty = "str"
    THEN LET uppers == Cardinality({i \in 1..Len(values) : isupper(values[i].val)})
             \* upper_score > 0.3
             upper_enough == 10 * uppers > 3 * Len(values)
             contains_dot == \E i \in 1..Len(values) : Contains(values[i].val, <<".">>)
         IN IF ~contains_dot /\ upper_enough /\ EndsWith(tool, "databaseList")
            THEN LET m == merge_unique(res.databases, values)
                 IN [res |-> [res EXCEPT !.databases = m.target],
                     raised |-> m.raised]
            ELSE IF contains_dot \/ EndsWith(tool, "tableList")
                 THEN LET m == merge_unique(res.tables, values)
                      IN [res |-> [res EXCEPT !.tables = m.target],
                          raised |-> m.raised]
                 ELSE [res |-> res, raised |-> FALSE]
    ELSE [res |-> res, raised |-> FALSE]

\* lines 25-42: a payload that is a mapping
apply_mapping(tool, payload, res) ==
    LET dbs == merge_keys(res.databases, payload, <<"databases", "databaseList", "dbs">>)
        res1 == [res EXCEPT !.databases = dbs.target]
    IN IF dbs.raised THEN [res |-> res1, raised |-> TRUE]
       ELSE LET tbs == merge_keys(res.tables, payload, <<"tables", "tableList", "tbls">>)
                res2 == [res1 EXCEPT !.tables = tbs.target]
            IN IF tbs.raised THEN [res |-> res2, raised |-> TRUE]
               ELSE [res |-> [res2 EXCEPT
                                !.ddl = scan_ddl(payload, res.ddl),
                                !.previews = scan_previews(tool, payload, res.previews,
                                                           <<"rows", "preview", "sample">>)],
                     raised |-> FALSE]

\* lines 13-21: the payload apply looks at
payload_of(raw_response) ==
    LET result == IF OGet(raw_response, "result").ty = "dict"
                  THEN OGet(raw_response, "result") ELSE raw_response
        payload == IF OHas(result, "content") THEN OGet(result, "content")
                   ELSE IF OHas(result, "data") THEN OGet(result, "data")
                   ELSE None
    IN IF payload.ty = "none" THEN raw_response ELSE payload

\* DiscoveryParser.apply: the accumulator afterwards, and whether an
\* exception left apply
apply(tool, raw_response, res) ==
    IF raw_response.ty # "dict" THEN [res |-> res, raised |-> FALSE]
    ELSE LET payload == payload_of(raw_response)
         IN IF payload.ty = "list"
            THEN classify_list_payload(tool, payload.val, res)
            ELSE IF payload.ty = "dict" THEN apply_mapping(tool, payload, res)
                 ELSE [res |-> res, raised |-> FALSE]

\* ----- the discovery specification: responses applied to one accumulator

\* apply calls in one behaviour
MaxApplies == 2

DiscToolInputs == {<<BASE, "databaseList">>, <<BASE, "tableList">>,
                   <<BASE, "tablePreview">>}

DB(n) == JStr(<<n>>)
SalesOrders == JStr(<<"sales", ".", "orders">>)
DdlOrders ==
    JStr(<<"CREATE", " ", "TABLE", " ", "sales", ".", "orders", " ", "(id INT)">>)
DdlLower == JStr(<<"create", " ", "table", " ", "db1", " ", "(id INT)">>)
DdlNoName == JStr(<<"CREATE", " ", "TABLE", " ", "(id INT)">>)
Row == ODict(<< <<"id", JInt(1)>> >>)

\* the raw responses of the model, numbered
RawInputs ==
   << None,
      JList(<<DB("DB1")>>),
      JStr(<<"DB1">>),
      ODict(<< <<"databases", JList(<<DB("DB1"), DB("DB2")>>)>> >>),
      ODict(<< <<"databases", JList(<<DB("DB3"), DB("DB1"), DB("DB3")>>)>> >>),
      ODict(<< <<"databases", JStr(<<"DB1">>)>> >>),
      ODict(<< <<"dbs", JList(<<DB("DB2")>>)>>,
               <<"databaseList", JList(<<DB("DB1"), DB("DB2")>>)>>,
               <<"tbls", JList(<<SalesOrders, SalesOrders>>)>> >>),
      ODict(<< <<"result",
                 ODict(<< <<"content", JList(<<DB("DB1"), DB("db1"), DB("DB2")>>)>> >>)>> >>),
      ODict(<< <<"result", ODict(<< <<"data", JList(<<SalesOrders, DB("DB1")>>)>> >>)>> >>),
      ODict(<< <<"result",
                 ODict(<< <<"content",
                            ODict(<< <<"tables", JList(<<DB("orders")>>)>> >>)>> >>)>> >>),
      ODict(<< <<"data", JList(<<DB("db1"), JInt(1)>>)>> >>),
      ODict(<< <<"databases", JList(<<DB("DB1"), JInt(1), JBool(TRUE), None>>)>> >>),
      ODict(<< <<"databases",
                 JList(<<DB("DB3"), ODict(<< <<"name", DB("DB1")>> >>), DB("DB2")>>)>> >>),
      ODict(<< <<"tables", JList(<<JList(<<SalesOrders>>)>>)>>,
               <<"ddl", DdlOrders>> >>),
      ODict(<< <<"tables", JList(<<SalesOrders, DB("orders"), SalesOrders>>)>> >>),
      ODict(<< <<"ddl", DdlOrders>> >>),
      ODict(<< <<"text", DdlNoName>>, <<"ddl", DdlLower>> >>),
      ODict(<< <<"rows", JList(<<Row, Row>>)>> >>),
      ODict(<< <<"rows", JList(<< >>)>>, <<"preview", JList(<<JInt(1)>>)>>,
               <<"sample", JList(<<Row>>)>> >>),
      ODict(<< <<"rows", JList([n \in 1..(PreviewCap + 1) |-> Row])>> >>),
      ODict(<< <<"rows", JList(<<Row, JInt(5)>>)>> >>),
      ODict(<< <<"result",
                 ODict(<< <<"content", JList(<<DB("DB1"), DB("db1"), DB("sales")>>)>> >>)>> >>),
      ODict(<< <<"result",
                 ODict(<< <<"content",
                            JList(<<DB("DB1"), DB("db1"), DB("sales"), DB("orders")>>)>> >>)>> >>) >>

DiscIdle ==
    /\ ClientIdle
    /\ name_in = NoName
    /\ name_once = NoName
    /\ name_twice = NoName
    /\ stage = 0
    /\ NoGenerator

DiscInit ==
    /\ camel_first = {}
    /\ DiscIdle
    /\ NoDiscovery
    /\ NoEnvelope
    /\ TwoFreshClients
    /\ NoRun

\* self.discovery_parser.apply(tool, raw, results)
DiscoveryApply ==
    /\ Len(applied) < MaxApplies
    /\ \E tool \in DiscToolInputs, n \in 1..Len(RawInputs) :
          LET raw == RawInputs[n]
          IN /\ results' = apply(tool, raw, results).res
             /\ apply_ret' = IF apply(tool, raw, results).raised THEN "raise"
                             ELSE "return"
             /\ applied' = Append(applied, [tool |-> tool, raw |-> raw])
    /\ UNCHANGED <<ClientVars, CanonVars, GenVars, EnvelopeVars, LaneVars,
                   OrchVars>>

DiscNext == DiscoveryApply

SpecDiscovery == DiscInit /\ [][DiscNext]_vars

\* ------------------------------------- claims on the discovery parser

\* no value occurs twice in the list
NoDuplicates(seq) ==
    \A i, j \in 1..Len(seq) : (i # j /\ seq[i].ty = seq[j].ty) => seq[i] # seq[j]

RECURSIVE FirstSeen(_)
\* the values of seq, each at the place of its first occurrence
FirstSeen(seq) ==
    IF seq = << >> THEN << >>
    ELSE LET init == FirstSeen(SubSeq(seq, 1, Len(seq) - 1))
             x == seq[Len(seq)]
         IN IF \E i \in 1..Len(init) : init[i].ty = x.ty /\ init[i] = x
            THEN init ELSE Append(init, x)

\* the raw response is the mapping {key: [strings]} and nothing else
ListOfNames(raw, key) ==
    /\ raw.ty = "dict"
    /\ Len(raw.pairs) = 1
    /\ raw.pairs[1][1] = key
    /\ raw.pairs[1][2].ty = "list"
    /\ \A i \in 1..Len(raw.pairs[1][2].val) : raw.pairs[1][2].val[i].ty = "str"

\* C19: after every apply on an accumulator that started fresh, databases
\* and tables hold no value twice and keep what they held, in place; a
\* payload {databases: [...]} (or {tables: [...]}) adds its values that are
\* new, in the order in which they are first seen, so that applying
\* {databases: [DB1, DB2]} twice leaves databases = [DB1, DB2].
C19_MergeUniqueFirstSeen ==
    [][ applied' # applied
        => LET raw == applied'[Len(applied')].raw
           IN /\ NoDuplicates(results'.databases)
              /\ NoDuplicates(results'.tables)
              /\ IsPrefix(results.databases, results'.databases)
              /\ IsPrefix(results.tables, results'.tables)
              /\ ListOfNames(raw, "databases")
                 => results'.databases
                      = FirstSeen(results.databases \o raw.pairs[1][2].val)
              /\ ListOfNames(raw, "tables")
                 => results'.tables
                      = FirstSeen(results.tables \o raw.pairs[1][2].val) ]_vars

\* {databases: [DB1, DB2]} applied twice to a fresh accumulator
C19_Witness ==
    /\ Len(applied) = 2
    /\ applied[1].raw = ODict(<< <<"databases", JList(<<DB("DB1"), DB("DB2")>>)>> >>)
    /\ applied[2].raw = applied[1].raw
    /\ results.databases = <<DB("DB1"), DB("DB2")>>

\* C20: apply raises for no tool name and no shape of the raw response, also
\* not for a mapping whose databases / tables / rows field is a list that
\* holds nested mappings or lists.
C20_ApplyNeverRaises == apply_ret # "raise"

\* the string fields of a payload mapping that hold CREATE TABLE, in the
\* order of the mapping's items
DdlFields(payload) ==
    IF payload.ty # "dict" THEN << >>
    ELSE LET IsDdl(p) == p[2].ty = "str" /\ HasCreateTable(p[2].val)
             hits == SelectSeq(payload.pairs, IsDdl)
         IN [i \in 1..Len(hits) |-> hits[i][2]]

\* the table identifier that follows the CREATE TABLE keywords of a DDL
\* text, << >> when the keywords are followed by no identifier
IdentifierAfterKeywords(v) ==
    LET at == {i \in 1..Len(v) - 2 :
                  SubSeq(upper(v), i, i + 2) = <<"CREATE", " ", "TABLE">>}
        first == CHOOSE i \in at : \A h \in at : i <= h
        from == SkipWhile(v, first + 3, WhiteSpace)
    IN IF at = {} THEN << >>
       ELSE SubSeq(v, from, SkipWhile(v, from, IdentTokens) - 1)

\* the payload a raw response carries, None when the response is no mapping
AppliedPayload(e) == IF e.raw.ty = "dict" THEN payload_of(e.raw) ELSE None

\* C21: after apply on a response whose payload mapping has a string field
\* holding CREATE TABLE, ddl maps the identifier that follows the keywords
\* to the full text of that field ({ddl: 'CREATE TABLE sales.orders (id
\* INT)'} gives ddl['sales.orders'] = that text), and maps the placeholder
\* table_N, N the number of entries before plus one, to the text when no
\* identifier follows.
C21_DdlStoredUnderIdentifier ==
    [][ applied' # applied
        => LET fields == DdlFields(AppliedPayload(applied'[Len(applied')]))
           IN fields # << >>
              => LET id == IdentifierAfterKeywords(fields[1].val)
                     key == IF id # << >> THEN id
                            ELSE Placeholder(Len(results.ddl) + 1)
                 IN \E i \in 1..Len(results'.ddl) :
                       results'.ddl[i] = <<key, fields[1]>> ]_vars

\* C30: after apply on a response whose payload mapping has several string
\* fields that each hold CREATE TABLE, ddl has an entry with the text of
\* every one of these fields.
C30_OneEntryPerDdlField ==
    [][ applied' # applied
        => LET fields == DdlFields(AppliedPayload(applied'[Len(applied')]))
           IN Len(fields) >= 2
              => \A f \in 1..Len(fields) :
                    \E i \in 1..Len(results'.ddl) :
                       results'.ddl[i][2] = fields[f] ]_vars

\* ------------------------------------ further claims on call_tool (Spec)

\* exchange e was answered by a response that is no invalid-parameters error
AnsweredOtherwise(e) == e.result.kind = "return" /\ ~AnsweredInvalidParams(e)

\* C25: when a variant attempt of a call_tool invocation was answered by a
\* response that is no invalid-parameters error, the signature of the
\* caller's arguments is not in the failure cache after the invocation, and
\* a later call_tool with the same signature is not suppressed.
C25_OriginalCachedOnlyOnTotalFailure ==
    [][ /\ (/\ pc' = "idle"
            /\ Len(wire') >= 2
            /\ AnsweredOtherwise(wire'[Len(wire')]))
           => <<normalize_tool_name(frame'.tool), DictKeys(frame'.arguments)>>
                 \notin failure_cache'
        /\ (/\ calls' = calls + 1
            /\ Len(wire) >= 2
            /\ AnsweredOtherwise(wire[Len(wire)])
            /\ <<normalize_tool_name(frame'.tool), DictKeys(frame'.arguments)>>
                  = CallerSignature)
           => pc' = "direct" ]_vars

\* C26: in one call_tool invocation an attempt, direct or variant, that is
\* answered by a response that is no invalid-parameters error is the last
\* request of the invocation, and call_tool returns that response (every
\* member of it is in the returned mapping).
C26_FirstOtherAnswerEndsInvocation ==
    \A i \in 1..Len(wire) :
        AnsweredOtherwise(wire[i])
        => /\ i = Len(wire)
           /\ pc = "idle"
           /\ ret.kind = "return"
           /\ \A k \in DOMAIN wire[i].result.value.items :
                 Get(ret.value, k) = wire[i].result.value.items[k]

\* the second variant was accepted after the direct attempt and the first
\* variant were rejected, and its response was returned
C26_Witness ==
    /\ Finished
    /\ Len(wire) = 3
    /\ AnsweredInvalidParams(wire[1])
    /\ AnsweredInvalidParams(wire[2])
    /\ wire[3].result = Return(ResultOk)
    /\ Get(ret.value, "result") = Get(ResultOk, "result")

\* C27: at the moment call_tool sends a tools/call request, direct or
\* variant, the signature of that request (canonical tool name, key set of
\* the arguments sent) is not in the failure cache.
C27_NoRequestWithCachedSignature ==
    [][ Len(wire') = Len(wire) + 1
        => RequestSignature(wire'[Len(wire')]) \notin failure_cache ]_vars

\* a second invocation found a variant cached by the first, passed over it
\* and sent the variant after it, whose signature was not cached
C27_Witness ==
    /\ calls = 2
    /\ pc = "variants"
    /\ Len(wire) = 2
    /\ frame.cache0 # {}
    /\ RequestSignature(wire[2]) \notin frame.cache0
    /\ \E i \in 1..Len(argument_variants(frame.args)) :
          /\ Signature(frame.canonical, argument_variants(frame.args)[i])
                \in frame.cache0
          /\ DictEq(argument_variants(frame.args)[i + 1], wire[2].params.arguments)

\* C28: in one call_tool invocation no two requests carry the same argument
\* mapping (the same keys with the same values).
C28_NoRepeatedArguments ==
    \A i, j \in 1..Len(wire) :
        i < j => ~DictEq(wire[i].params.arguments, wire[j].params.arguments)

\* ------------------------------------------ the JSON-RPC envelope
\* The payload a transport posts: McpClient.call (src/helpers/mcp_client.py,
\* line 37) and DataQualityRunner._rpc (src/dq_runner.py, line 50) build it
\* alike. An id is a JSON value, None when the caller supplies none.

\* bool(v) of Python for the values an id can be
PyTruthy(v) ==
    CASE v.ty = "none" -> FALSE
      [] v.ty = "int" -> v.val # 0
      [] v.ty = "str" -> v.val # ""
      [] v.ty = "bool" -> v.val
      [] OTHER -> TRUE

\* a mutant: only a missing id is replaced
id_or_fresh_if_none(id_, fresh) == IF id_.ty = "none" THEN JStr(fresh) ELSE id_

\* id_ or str(uuid.uuid4())
id_or_fresh(id_, fresh) == IF PyTruthy(id_) THEN id_ ELSE JStr(fresh)

\* payload = {'jsonrpc': '2.0', 'id': ..., 'method': method}
payload(method, id_, fresh) ==
    [jsonrpc |-> "2.0", id |-> id_or_fresh(id_, fresh), method |-> method]

\* one line of the envelope log
Posted(via, method, id_, fresh) ==
    [via |-> via, supplied |-> id_, payload |-> payload(method, id_, fresh)]

\* ----- the envelope specification: callers posting with and without ids

\* payloads posted in one behaviour
MaxSent == 2

\* what str(uuid.uuid4()) may give
Uuids == {"uuid-a", "uuid-b", "uuid-c"}

\* the ids a caller may supply, numbered; None stands for no id
IdInputs == << None, JInt(0), JInt(7), JStr("0"), JStr(""), JStr("req-1") >>

MethodInputs == {"initialize", "tools/list", "tools/call"}

EnvelopeInit ==
    /\ camel_first = {}
    /\ DiscIdle
    /\ NoDiscovery
    /\ NoEnvelope
    /\ TwoFreshClients
    /\ NoRun

NotEnvelope == <<ClientVars, CanonVars, GenVars, DiscVars, LaneVars, OrchVars>>

\* McpClient.call(method, params, id_): the payload it posts
ClientCall ==
    /\ Len(sent) < MaxSent
    /\ \E method \in MethodInputs, n \in 1..Len(IdInputs), fresh \in Uuids :
          sent' = Append(sent, Posted("McpClient.call", method, IdInputs[n], fresh))
    /\ UNCHANGED NotEnvelope

\* DataQualityRunner._rpc(method, params, id_): the payload it posts
RunnerRpc ==
    /\ Len(sent) < MaxSent
    /\ \E method \in MethodInputs, n \in 1..Len(IdInputs), fresh \in Uuids :
          sent' = Append(sent, Posted("DataQualityRunner._rpc", method,
                                      IdInputs[n], fresh))
    /\ UNCHANGED NotEnvelope

\* DataQualityRunner.initialize: "initialize" without an id, then, unless
\* the first _rpc raised, the "initialized" notification with id_=0 (whose
\* own exception is swallowed)
RunnerInitialize ==
    /\ sent = << >>
    /\ \E first_raises \in BOOLEAN, fresh1 \in Uuids, fresh2 \in Uuids :
          sent' = <<Posted("DataQualityRunner.initialize", "initialize", None,
                           fresh1)>>
                  \o (IF first_raises THEN << >>
                      ELSE <<Posted("DataQualityRunner.initialize",
                                    "initialized", JInt(0), fresh2)>>)
    /\ UNCHANGED NotEnvelope

EnvelopeNext == ClientCall \/ RunnerRpc \/ RunnerInitialize

SpecEnvelope == EnvelopeInit /\ [][EnvelopeNext]_vars

\* C29: a posted payload carries exactly the id its caller supplied, the id
\* 0 of the "initialized" notification included, and a fresh random id when
\* the caller supplied none.
C29_SuppliedIdCarried ==
    \A n \in 1..Len(sent) :
        IF sent[n].supplied.ty = "none"
        THEN sent[n].payload.id.ty = "str" /\ sent[n].payload.id.val \in Uuids
        ELSE /\ sent[n].payload.id.ty = sent[n].supplied.ty
             /\ sent[n].payload.id = sent[n].supplied

\* ------------------------------------------ two McpClient instances
\* Every attribute of a client is an attribute of the instance: session and
\* session_id_header are set in __init__ (lines 27-34), _failure_cache is
\* created on self by the first call_tool (lines 102-103). The client
\* variables hold the attributes (and history) of the instance that runs;
\* the other instance's are parked, and a switch of lanes exchanges the two.

\* the attributes and history of the instance that runs
RunningClient ==
    [session_sid |-> session_sid, failure_cache |-> failure_cache, pc |-> pc,
     frame |-> frame, ret |-> ret, wire |-> wire, rejected |-> rejected,
     failed |-> failed, captured |-> captured]

\* a mutant: _failure_cache is one set shared by the instances
SwitchLaneSharedCache ==
    /\ lane' = 3 - lane
    /\ parked' = RunningClient
    /\ session_sid' = parked.session_sid
    /\ pc' = parked.pc
    /\ frame' = parked.frame
    /\ ret' = parked.ret
    /\ wire' = parked.wire
    /\ rejected' = parked.rejected
    /\ failed' = parked.failed
    /\ captured' = parked.captured
    /\ UNCHANGED <<failure_cache, camel_first, calls>>

\* the scheduler lets the other instance run: each instance has its own
\* session headers, failure cache and running call
SwitchLane ==
    /\ lane' = 3 - lane
    /\ parked' = RunningClient
    /\ session_sid' = parked.session_sid
    /\ failure_cache' = parked.failure_cache
    /\ pc' = parked.pc
    /\ frame' = parked.frame
    /\ ret' = parked.ret
    /\ wire' = parked.wire
    /\ rejected' = parked.rejected
    /\ failed' = parked.failed
    /\ captured' = parked.captured
    /\ UNCHANGED <<camel_first, calls>>

\* the session ids the last response of the log brought
CapturedBy(log) ==
    IF log # << >> /\ log[Len(log)].outcome.kind = "response"
                   /\ Truthy(log[Len(log)].outcome.sid)
    THEN {log[Len(log)].outcome.sid} ELSE {}

\* ----- the two-client specification: call_tool on two instances, the
\* steps of the two interleaved in any order

\* call_tool invocations of both instances together
MaxLaneCalls == 2

LaneToolInputs == {<<"tableList">>}

LaneArgInputs == { << >>, << <<DatabaseName, "SALES">> >> }

LaneOutcomes ==
    { Response(200, sid, PlainBody(Json(v))) :
        sid \in {"absent", "abc123", "def456"}, v \in {ResultOk, ErrInvalid} }

LaneInit ==
    /\ camel_first = {DatabaseName}
    /\ DiscIdle
    /\ NoDiscovery
    /\ NoEnvelope
    /\ TwoFreshClients
    /\ NoRun

NotClient == <<CanonVars, GenVars, DiscVars, EnvelopeVars, OrchVars>>

LaneSwitch == SwitchLane /\ UNCHANGED NotClient

LaneCallToolStart ==
    /\ calls < MaxLaneCalls
    /\ calls' = calls + 1
    /\ \E tool \in LaneToolInputs, arguments \in LaneArgInputs :
          call_tool_start(tool, arguments)
    /\ UNCHANGED <<lane, parked, captured, NotClient>>

LaneCallToolDirect ==
    /\ \E outcome \in LaneOutcomes : call_tool_direct(outcome)
    /\ captured' = captured \cup CapturedBy(wire')
    /\ UNCHANGED <<calls, lane, parked, NotClient>>

LaneCallToolSkip ==
    call_tool_skip /\ UNCHANGED <<calls, lane, parked, captured, NotClient>>

LaneCallToolVariant ==
    /\ \E outcome \in LaneOutcomes : call_tool_variant(outcome)
    /\ captured' = captured \cup CapturedBy(wire')
    /\ UNCHANGED <<calls, lane, parked, NotClient>>

LaneCallToolExhausted ==
    call_tool_exhausted /\ UNCHANGED <<calls, lane, parked, captured, NotClient>>

LaneNext ==
    \/ LaneSwitch
    \/ LaneCallToolStart
    \/ LaneCallToolDirect
    \/ LaneCallToolSkip
    \/ LaneCallToolVariant
    \/ LaneCallToolExhausted

SpecLanes == LaneInit /\ [][LaneNext]_vars

\* C23: whatever the interleaving of the calls on two McpClient instances,
\* a call_tool is suppressed on an instance only for a signature that a
\* request of that same instance had rejected by the server, and every
\* request of an instance carries no session id or one that a response to
\* that same instance brought.
C23_InstancesShareNothing ==
    [][ /\ (calls' = calls + 1 /\ pc' = "idle")
           => <<normalize_tool_name(frame'.tool), DictKeys(frame'.arguments)>>
                 \in rejected
        /\ (lane' = lane /\ Len(wire') = Len(wire) + 1)
           => wire'[Len(wire')].sid \in {"absent"} \cup captured ]_vars

\* instance 1 holds a session id and has a signature cached; instance 2
\* called call_tool with that signature: its request went out, without a
\* session id
C23_Witness ==
    /\ lane = 2
    /\ parked.session_sid = "abc123"
    /\ <<<<BASE, "tableList">>, {DatabaseName}>> \in parked.failure_cache
    /\ frame.tool = <<"tableList">>
    /\ frame.arguments = << <<DatabaseName, "SALES">> >>
    /\ Len(wire) = 1
    /\ wire[1].sid = "absent"

\* ------------------------------------------------- the orchestrator
\* DataQualityOrchestrator.run_full (src/data_quality_client.py). A step of
\* the orchestrator runs from one request to the next: it handles what the
\* call before returned and goes on to the next call_tool, whose steps are
\* those of McpClient.call_tool above. The planner (an LLM behind
\* LlmPlanner) and the server are the environment: the planner names plans
\* and says whether the prompt asks for the quality path, the server has one
\* response shape per run and one behaviour per call_tool invocation.

\* invocations of one run that the server lets fail
MaxFailures == 2

\* DQ_MAX_TABLES and DQ_MAX_COLUMNS_PER_TABLE when the environment sets none
MaxTablesDefault == 10
MaxColumnsDefault == 25

\* "not v" of Python on a JSON value (strings are token sequences here)
Falsy(v) ==
    CASE v.ty = "none" -> TRUE
      [] v.ty = "bool" -> ~v.val
      [] v.ty = "int" -> v.val = 0
      [] v.ty \in {"str", "list"} -> v.val = << >>
      [] v.ty = "dict" -> IF "items" \in DOMAIN v THEN DOMAIN v.items = {}
                          ELSE v.pairs = << >>

\* the order in which the mappings of the model list their keys
KeyOrder ==
    <<"result", "error", "content", "data", "tables", "ddl", "rows", "tools",
      "name", "DataBaseName", "TableName", "ColumnName", "NullCount", "value",
      "id", "code", "message", "ok", "tool", "_tool", "_args">>

RECURSIVE ToOrdered(_)
\* the same Python value, its mappings written as ordered items (what apply
\* reads)
ToOrdered(v) ==
    IF v.ty = "dict" /\ "items" \in DOMAIN v
    THEN LET InDict(k) == k \in DOMAIN v.items
             keys == SelectSeq(KeyOrder, InDict)
         IN ODict([n \in 1..Len(keys) |-> <<keys[n], ToOrdered(v.items[keys[n]])>>])
    ELSE IF v.ty = "list"
         THEN JList([n \in 1..Len(v.val) |-> ToOrdered(v.val[n])])
         ELSE v

\* f"{db}.{name}"
Qualified(db, name) == JStr(db.val \o <<".">> \o name.val)

\* fq.split('.', 1): the parts before and after the first dot; ok is FALSE
\* when there is no dot (the unpacking "db, table = ..." raises)
SplitFq(fq) ==
    LET dots == {n \in 1..Len(fq.val) : fq.val[n] = "."}
        first == CHOOSE n \in dots : \A m \in dots : n <= m
    IN IF dots = {} THEN [ok |-> FALSE]
       ELSE [ok |-> TRUE, db |-> JStr(SubSeq(fq.val, 1, first - 1)),
             table |-> JStr(SubSeq(fq.val, first + 1, Len(fq.val)))]

\* fq.split('.', 1)[-1]
LastPart(fq) == IF SplitFq(fq).ok THEN SplitFq(fq).table ELSE fq

\* (resp.get('result') or {}).get('data'): raised when result is a truthy
\* value that is no mapping (AttributeError)
ResultData(resp) ==
    LET result == Get(resp, "result")
    IN IF result.ty = "dict" THEN [raised |-> FALSE, rows |-> Get(result, "data")]
       ELSE IF Falsy(result) THEN [raised |-> FALSE, rows |-> None]
            ELSE [raised |-> TRUE, rows |-> None]

\* 'error' in resp and resp['error'].get('code') == -32602: raised when the
\* error member is no mapping (AttributeError)
InvalidParamsCheck(resp) ==
    IF "error" \notin DOMAIN resp.items THEN [raised |-> FALSE, skip |-> FALSE]
    ELSE IF resp.items["error"].ty # "dict" THEN [raised |-> TRUE, skip |-> FALSE]
         ELSE LET code == Get(resp.items["error"], "code")
              IN [raised |-> FALSE,
                  skip |-> code.ty = "int" /\ code.val = InvalidParamsCode]

RECURSIVE NamesIn(_, _)
\* for r in rows: name = r.get(key) if isinstance(r, dict) else None, kept
\* when it is a string
NamesIn(rows, key) ==
    IF rows = << >> THEN << >>
    ELSE LET r == Head(rows)
             name == IF r.ty = "dict" THEN Get(r, key) ELSE None
         IN (IF name.ty = "str" THEN <<name>> ELSE << >>) \o NamesIn(Tail(rows), key)

\* the rows of a "data" member that is a list, none otherwise
RowsOf(rows) == IF rows.ty = "list" THEN rows.val ELSE << >>

\* x in seq, for strings
InList(x, seq) == \E n \in 1..Len(seq) : seq[n].ty = x.ty /\ seq[n] = x

\* ----- the profiles of the quality path

\* TableProfile(database=db, table=table) with ddl_available = True, filed
\* under fq
TableProfile(fq, db, table) ==
    [fq |-> fq, database |-> db, table |-> table, ddl_available |-> TRUE,
     columns |-> << >>]

\* ColumnProfile(name=cname) with the null count of its summary row
ColumnProfile(cname, r) ==
    [name |-> cname, null_count |-> Get(r, "NullCount"),
     distinct_count |-> None, stats |-> None, missing_rows |-> None]

RECURSIVE ColumnsFrom(_, _, _)
\* lines 298-309: profile.columns after the rows of a column summary
ColumnsFrom(rows, columns, processed) ==
    IF rows = << >> \/ processed >= MaxColumnsDefault THEN columns
    ELSE LET r == Head(rows)
             cname == IF r.ty = "dict" THEN Get(r, "ColumnName") ELSE None
             at == {n \in 1..Len(columns) : columns[n].name = cname}
         IN IF cname.ty # "str" THEN ColumnsFrom(Tail(rows), columns, processed)
            ELSE ColumnsFrom(Tail(rows),
                             IF at = {} THEN Append(columns, ColumnProfile(cname, r))
                             ELSE [columns EXCEPT ![CHOOSE n \in at : TRUE] =
                                                      ColumnProfile(cname, r)],
                             processed + 1)

\* ----- the tool catalogue and the plans

\* lines 212-218: the names of the tool inventory's top-level 'tools' list
AvailableTools(inventory) ==
    IF inventory.ty # "dict" THEN {}
    ELSE LET tl == IF "tools" \in DOMAIN inventory.items
                   THEN inventory.items["tools"] ELSE JList(<< >>)
         IN IF tl.ty # "list" THEN {}
            ELSE {tl.val[n].items["name"].val :
                    n \in {m \in 1..Len(tl.val) :
                             /\ tl.val[m].ty = "dict"
                             /\ "name" \in DOMAIN tl.val[m].items}}

\* lines 219-225: the planned tools kept
FilterPlan(plan, available_tools) ==
    LET Kept(tool) == ~(available_tools # {} /\ tool \notin available_tools)
    IN SelectSeq(plan, Kept)

\* 'table' in tool
MentionsTable(tool) ==
    \E n \in 1..Len(tool) : tool[n] \in {"tableList", "tableDDL", "tablePreview"}

\* lines 396-409: the arguments run_quality_metrics gives a tool
QualityArgs(tool, schema_inventory, tables) ==
    (IF schema_inventory.database.ty = "str" /\ ~Falsy(schema_inventory.database)
     THEN << <<DatabaseName, schema_inventory.database>> >> ELSE << >>)
    \o (IF tables # << >> /\ MentionsTable(tool)
        THEN << <<TableName, LastPart(tables[1])>> >> ELSE << >>)

\* the three column metrics of run_column_quality, in the order called
MetricTools ==
    <<<<QLTY, "distinctCategories">>, <<QLTY, "univariateStatistics">>,
      <<QLTY, "rowsWithMissingValues">>>>

\* the next column at or after column k of table j, in the order of the
\* loops of run_column_quality
RECURSIVE NextColumn(_, _, _)
NextColumn(rich, j, k) ==
    IF j > Len(rich) THEN [done |-> TRUE]
    ELSE IF k > Len(rich[j].columns) THEN NextColumn(rich, j + 1, 1)
         ELSE [done |-> FALSE, j |-> j, k |-> k]

\* ----- the server of a run

\* the id every response of the run carries in its session header
RunSid == "abc123"

Db1 == DB("DB1")
Orders == DB("ORDERS")
ColId == DB("id")

\* an error member that is a bare string
ErrorText == JDict([error |-> JStr(<<"boom">>)])

\* a result next to an error
ResultAndError ==
    JDict([result |-> JDict([ok |-> JBool(TRUE)]),
           error |-> JDict([code |-> JInt(-32000), message |-> JStr("warn")])])

\* the rows a tool answers with when the server reports result.data rows
RowsOk(canonical) ==
    LET stem == canonical[Len(canonical)]
        data ==
          CASE stem = "databaseList" ->
                 JList(<<JDict([DataBaseName |-> Db1])>>)
            [] stem = "tableList" ->
                 JList(<<JDict([TableName |-> Orders])>>)
            [] stem = "tableDDL" ->
                 JList(<<JDict([value |-> DdlOrders])>>)
            [] stem = "columnSummary" ->
                 JList(<<JDict([ColumnName |-> ColId, NullCount |-> JInt(0)])>>)
            [] OTHER -> JList(<<JDict([value |-> JInt(1)])>>)
    IN JDict([result |-> JDict([data |-> data])])

\* what a tool answers with when the server reports result.content
ContentOk(canonical) ==
    LET stem == canonical[Len(canonical)]
    IN CASE stem = "databaseList" ->
              JDict([result |-> JDict([content |-> JList(<<Db1>>)])])
         [] stem = "tableList" ->
              JDict([result |-> JDict([content |-> JList(<<Qualified(Db1, Orders)>>),
                                       tables |-> JList(<<Orders>>)])])
         [] stem = "tableDDL" ->
              JDict([result |-> JDict([content |-> JDict([ddl |-> DdlOrders])])])
         [] stem = "tablePreview" ->
              JDict([result |->
                       JDict([content |->
                                JDict([rows |-> JList(<<JDict([id |-> JInt(1)])>>)])])])
         [] OTHER -> JDict([result |-> JDict([content |-> JList(<< >>)])])

Shapes == {"rows", "content"}

OkResponse(shape, canonical) ==
    IF shape = "rows" THEN RowsOk(canonical) ELSE ContentOk(canonical)

\* how the server treats the requests of one call_tool invocation
FailureModes == {"invalid", "invalid_twice", "error", "errtext", "empty", "raise"}

Answered(v) == Response(200, RunSid, PlainBody(Json(v)))

\* what comes back for the nth request of the invocation
Answer(mode, shape, canonical, nth) ==
    CASE mode = "ok" -> Answered(OkResponse(shape, canonical))
      [] mode = "invalid" -> Answered(ErrInvalid)
      [] mode = "invalid_twice" ->
           IF nth <= 2 THEN Answered(ErrInvalid)
           ELSE Answered(OkResponse(shape, canonical))
      [] mode = "error" -> Answered(ErrOther)
      [] mode = "errtext" -> Answered(ErrorText)
      [] mode = "empty" -> Response(200, RunSid, PlainBody(Garbage))
      [] mode = "raise" -> Raised

\* the behaviours the server may show in the invocation about to start: a
\* suppressed call reaches no server
ServerModes(tool, arguments) ==
    IF Signature(normalize_tool_name(tool), arguments) \in failure_cache
    THEN {"ok"}
    ELSE {"ok"} \cup (IF orch.failures < MaxFailures THEN FailureModes ELSE {})

\* what the server may answer to initialize
InitOutcomes ==
    {Answered(ResultOk), Answered(ResultAndError), Answered(ErrOther),
     Response(200, RunSid, PlainBody(Garbage)), Raised}

\* a catalogue under result.tools, and one whose 'tools' list is top-level
CatalogueEntries ==
    JList(<<JDict([name |-> JStr(<<BASE, "databaseList">>)]),
            JDict([name |-> JStr(<<BASE, "tableList">>)]),
            JDict([name |-> JStr(<<QLTY, "missingValues">>)])>>)
NestedCatalogue == JDict([result |-> JDict([tools |-> CatalogueEntries])])
TopLevelCatalogue == JDict([tools |-> CatalogueEntries])

\* what the server may answer to tools/list
ListOutcomes ==
    {Answered(NestedCatalogue), Answered(TopLevelCatalogue), Raised}

\* the plans the planner may name (the first of each is its fallback)
DiscoveryPlans ==
    {<<<<BASE, "databaseList">>, <<BASE, "tableList">>>>,
     <<<<"databaseList">>, <<BASE, "tablePreview">>>>}
QualityPlans ==
    {<<<<QLTY, "missingValues">>, <<QLTY, "distinctCategories">>,
       <<QLTY, "univariateStatistics">>>>,
     <<<<"missingValues">>, <<BASE, "tablePreview">>>>}

\* ----- the steps of run_full

RunClientVars ==
    <<camel_first, session_sid, failure_cache, pc, frame, ret, wire, rejected,
      failed>>

NotRun == <<calls, CanonVars, GenVars, EnvelopeVars, LaneVars>>

\* the orchestrator, its attributes now o, goes on to
\* self.mcp.call_tool(tool, arguments) and waits for it at label at
CallTool(tool, arguments, at, o) ==
    /\ call_tool_start(tool, arguments)
    /\ \E mode \in ServerModes(tool, arguments) :
          orch' = [o EXCEPT !.mode = mode,
                            !.failures = @ + (IF mode = "ok" THEN 0 ELSE 1)]
    /\ opc' = at

\* the orchestrator, its attributes now o, goes on to label at
GoOn(at, o) ==
    /\ orch' = o
    /\ opc' = at
    /\ UNCHANGED RunClientVars

\* an exception leaves run_full
Abort(o) == GoOn("raised", o)

\* run_full returns
Done(o, summary) == GoOn("done", [o EXCEPT !.summary = summary])

\* a mutant: run_full goes on whenever initialize returned a response
EnsureConnectionLenient ==
    /\ opc = "new"
    /\ \E outcome \in InitOutcomes :
          /\ initialize(outcome)
          /\ issued' = Append(issued, [method |-> "initialize", name |-> << >>])
          /\ IF call_result(outcome).kind = "raise"
             THEN opc' = "raised" /\ orch' = orch
             ELSE /\ opc' = "inventory_schema"
                  /\ orch' = [orch EXCEPT !.handshake_ok = TRUE]
    /\ UNCHANGED <<DiscVars, NotRun>>

\* lines 449-465 with ensure_connection: the handshake
EnsureConnection ==
    /\ opc = "new"
    /\ \E outcome \in InitOutcomes :
          /\ initialize(outcome)
          /\ issued' = Append(issued, [method |-> "initialize", name |-> << >>])
          /\ LET init_resp == call_result(outcome)
                 ok == /\ "result" \in DOMAIN init_resp.value.items
                       /\ "error" \notin DOMAIN init_resp.value.items
             IN IF init_resp.kind = "raise"
                THEN opc' = "raised" /\ orch' = orch
                ELSE IF ok
                     THEN /\ opc' = "inventory_schema"
                          /\ orch' = [orch EXCEPT !.handshake_ok = TRUE]
                     ELSE /\ opc' = "done"
                          /\ orch' = [orch EXCEPT !.summary = "handshake failed"]
    /\ UNCHANGED <<DiscVars, NotRun>>

\* inventory_schema up to its request (none when no database is named)
InventorySchema ==
    /\ opc = "inventory_schema"
    /\ IF orch.target_db.ty = "str"
       THEN CallTool(<<BASE, "tableList">>,
                     << <<DatabaseName, orch.target_db>> >>,
                     "inventory_schema_return", orch)
       ELSE GoOn("inventory_tools",
                 [orch EXCEPT !.schema_inventory =
                                 [database |-> orch.target_db, tables |-> << >>]])
    /\ UNCHANGED <<issued, DiscVars, NotRun>>

\* lines 138-148: the tables of result.tables; an exception of the call is
\* caught
InventorySchemaReturn ==
    /\ opc = "inventory_schema_return"
    /\ pc = "idle"
    /\ LET r2 == IF ret.kind = "raise" THEN None ELSE Get(ret.value, "result")
           maybe_tables == IF r2.ty = "dict" THEN Get(r2, "tables") ELSE None
           IsStr(t) == t.ty = "str"
           names == IF maybe_tables.ty = "list"
                    THEN SelectSeq(maybe_tables.val, IsStr) ELSE << >>
           tables == [n \in 1..Len(names) |-> Qualified(orch.target_db, names[n])]
       IN GoOn("inventory_tools",
               [orch EXCEPT !.schema_inventory =
                               [database |-> orch.target_db, tables |-> tables]])
    /\ UNCHANGED <<issued, DiscVars, NotRun>>

\* inventory_tools: the catalogue as list_tools gives it
InventoryTools ==
    /\ opc = "inventory_tools"
    /\ \E outcome \in ListOutcomes :
          /\ list_tools(outcome)
          /\ issued' = Append(issued, [method |-> "tools/list", name |-> << >>])
          /\ orch' = [orch EXCEPT !.tool_inventory =
                         IF call_result(outcome).kind = "raise" THEN EmptyDict
                         ELSE call_result(outcome).value]
    /\ opc' = "derive_intent"
    /\ UNCHANGED <<DiscVars, NotRun>>

\* what self.planner.is_quality_request(prompt, self.intent) may do: the
\* planner is whatever object the orchestrator holds, and the LlmPlanner of
\* helpers/llm_planner.py defines no such method (AttributeError)
PlannerAnswers == {"quality", "not quality", "raise"}

\* lines 476-481: the intent is derived and the planner says which path the
\* prompt asks for
DeriveIntent ==
    /\ opc = "derive_intent"
    /\ \E is_quality \in PlannerAnswers :
          GoOn(CASE is_quality = "quality" -> "deterministic_discovery"
                 [] is_quality = "not quality" -> "discover_schema"
                 [] is_quality = "raise" -> "raised",
               orch)
    /\ UNCHANGED <<issued, DiscVars, NotRun>>

\* the loop of lines 272-283 from table i on: the name is split and the DDL
\* asked for, or the loop is over
NextDdl(i, tables, o) ==
    IF i > Len(tables) THEN GoOn("collect_column_summaries", o)
    ELSE IF ~SplitFq(tables[i]).ok THEN Abort(o)
         ELSE CallTool(<<BASE, "tableDDL">>,
                       << <<DatabaseName, SplitFq(tables[i]).db>>,
                          <<TableName, SplitFq(tables[i]).table>> >>,
                       "deterministic_discovery_ddl", [o EXCEPT !.i = i])

\* lines 254-258: the target database is recorded and its tables asked for
AfterDatabases(target_db, databases, o) ==
    IF Falsy(target_db)
    THEN /\ results' = [results EXCEPT !.databases = databases]
         /\ NextDdl(1, results.tables, o)
    ELSE /\ results' = [results EXCEPT !.databases =
                           IF InList(target_db, databases) THEN databases
                           ELSE Append(databases, target_db)]
         /\ CallTool(<<BASE, "tableList">>, << <<DatabaseName, target_db>> >>,
                     "deterministic_discovery_tables",
                     [o EXCEPT !.local_db = target_db])

\* deterministic_discovery(self.schema_inventory.get('database')) up to its
\* first request
DeterministicDiscovery ==
    /\ opc = "deterministic_discovery"
    /\ IF Falsy(orch.schema_inventory.database)
       THEN /\ CallTool(<<BASE, "databaseList">>, << >>,
                        "deterministic_discovery_databases", orch)
            /\ UNCHANGED results
       ELSE AfterDatabases(orch.schema_inventory.database, results.databases, orch)
    /\ UNCHANGED <<apply_ret, applied, issued, NotRun>>

\* lines 245-253: the databases of the rows, the first of them the target
DeterministicDiscoveryDatabases ==
    /\ opc = "deterministic_discovery_databases"
    /\ pc = "idle"
    /\ IF ret.kind = "raise" \/ ResultData(ret.value).raised
       THEN Abort(orch) /\ UNCHANGED results
       ELSE LET rows == ResultData(ret.value).rows
                databases == results.databases \o NamesIn(RowsOf(rows), "DataBaseName")
                target_db == IF databases # << >> THEN databases[1] ELSE None
            IN AfterDatabases(target_db, databases, orch)
    /\ UNCHANGED <<apply_ret, applied, issued, NotRun>>

\* lines 259-270: the qualified names of the rows, then the DDL loop
DeterministicDiscoveryTables ==
    /\ opc = "deterministic_discovery_tables"
    /\ pc = "idle"
    /\ IF ret.kind = "raise" \/ ResultData(ret.value).raised
       THEN Abort(orch) /\ UNCHANGED results
       ELSE LET rows == ResultData(ret.value).rows
                names == Take(NamesIn(RowsOf(rows), "TableName"), MaxTablesDefault)
                tables == results.tables \o
                          [n \in 1..Len(names) |-> Qualified(orch.local_db, names[n])]
            IN /\ results' = [results EXCEPT !.tables = tables]
               /\ NextDdl(1, tables, orch)
    /\ UNCHANGED <<apply_ret, applied, issued, NotRun>>

\* lines 276-283: the DDL of table i is marked available and its profile
\* is begun
DeterministicDiscoveryDdl ==
    /\ opc = "deterministic_discovery_ddl"
    /\ pc = "idle"
    /\ IF ret.kind = "raise"
       THEN Abort(orch) /\ UNCHANGED results
       ELSE LET fq == results.tables[orch.i]
                profiled == \E n \in 1..Len(orch.rich_quality) :
                               orch.rich_quality[n].fq = fq
                rich == IF profiled THEN orch.rich_quality
                        ELSE Append(orch.rich_quality,
                                    TableProfile(fq, SplitFq(fq).db, SplitFq(fq).table))
            IN /\ results' = IF "result" \in DOMAIN ret.value.items
                             THEN [results EXCEPT !.ddl =
                                      DictSet(@, fq.val, JStr(<<"available">>))]
                             ELSE results
               /\ NextDdl(orch.i + 1, results.tables,
                          [orch EXCEPT !.rich_quality = rich])
    /\ UNCHANGED <<apply_ret, applied, issued, NotRun>>

\* the loop of collect_column_summaries from profile j on
NextSummary(j, o) ==
    IF j > Len(o.rich_quality) THEN GoOn("run_column_quality", o)
    ELSE CallTool(<<QLTY, "columnSummary">>,
                  << <<DatabaseName, o.rich_quality[j].database>>,
                     <<TableName, o.rich_quality[j].table>> >>,
                  "collect_column_summaries_return", [o EXCEPT !.j = j])

\* collect_column_summaries up to its first request
CollectColumnSummaries ==
    /\ opc = "collect_column_summaries"
    /\ NextSummary(1, orch)
    /\ UNCHANGED <<issued, DiscVars, NotRun>>

\* lines 292-309: the table is skipped on invalid parameters, else its
\* columns are profiled
CollectColumnSummariesReturn ==
    /\ opc = "collect_column_summaries_return"
    /\ pc = "idle"
    /\ IF ret.kind = "raise" \/ InvalidParamsCheck(ret.value).raised
       THEN Abort(orch)
       ELSE IF InvalidParamsCheck(ret.value).skip
            THEN NextSummary(orch.j + 1,
                             [orch EXCEPT !.skipped =
                                Append(@, [tool |-> <<QLTY, "columnSummary">>,
                                           table |-> orch.rich_quality[orch.j].fq,
                                           column |-> None])])
            ELSE IF ResultData(ret.value).raised THEN Abort(orch)
                 ELSE NextSummary(orch.j + 1,
                                  [orch EXCEPT !.rich_quality[orch.j].columns =
                                     ColumnsFrom(RowsOf(ResultData(ret.value).rows),
                                                 @, 0)])
    /\ UNCHANGED <<issued, DiscVars, NotRun>>

\* the loops of run_column_quality from metric m of column k of profile j on
NextMetric(j, k, m, o) ==
    LET col == IF m > Len(MetricTools) THEN NextColumn(o.rich_quality, j, k + 1)
               ELSE NextColumn(o.rich_quality, j, k)
        metric == IF m > Len(MetricTools) THEN 1 ELSE m
    IN IF col.done THEN GoOn("interpret_quality", o)
       ELSE CallTool(MetricTools[metric],
                     << <<DatabaseName, o.rich_quality[col.j].database>>,
                        <<TableName, o.rich_quality[col.j].table>>,
                        <<ColumnName, o.rich_quality[col.j].columns[col.k].name>> >>,
                     "run_column_quality_return",
                     [o EXCEPT !.j = col.j, !.k = col.k, !.i = metric])

\* run_column_quality up to its first request
RunColumnQuality ==
    /\ opc = "run_column_quality"
    /\ NextMetric(1, 1, 1, orch)
    /\ UNCHANGED <<issued, DiscVars, NotRun>>

\* the column profile after metric m answered rows
WithMetric(colprof, m, rows) ==
    CASE m = 1 -> IF rows.ty = "list"
                  THEN [colprof EXCEPT !.distinct_count = JInt(Len(rows.val))]
                  ELSE colprof
      [] m = 2 -> IF rows.ty = "list" /\ rows.val # << >>
                  THEN [colprof EXCEPT !.stats =
                          IF rows.val[1].ty = "dict" THEN rows.val[1] ELSE EmptyDict]
                  ELSE colprof
      [] m = 3 -> IF rows.ty = "list"
                  THEN [colprof EXCEPT !.missing_rows = JInt(Len(rows.val))]
                  ELSE colprof

\* lines 322-344: one metric of one column is skipped on invalid
\* parameters, else recorded in the column's profile
RunColumnQualityReturn ==
    /\ opc = "run_column_quality_return"
    /\ pc = "idle"
    /\ IF ret.kind = "raise" \/ InvalidParamsCheck(ret.value).raised
       THEN Abort(orch)
       ELSE IF InvalidParamsCheck(ret.value).skip
            THEN NextMetric(orch.j, orch.k, orch.i + 1,
                            [orch EXCEPT !.skipped =
                               Append(@, [tool |-> MetricTools[orch.i],
                                          table |-> orch.rich_quality[orch.j].fq,
                                          column |-> orch.rich_quality[orch.j]
                                                        .columns[orch.k].name])])
            ELSE IF ResultData(ret.value).raised THEN Abort(orch)
                 ELSE NextMetric(orch.j, orch.k, orch.i + 1,
                                 [orch EXCEPT
                                    !.rich_quality[orch.j].columns[orch.k] =
                                       WithMetric(@, orch.i,
                                                  ResultData(ret.value).rows)])
    /\ UNCHANGED <<issued, DiscVars, NotRun>>

\* lines 485-495: the profiles are assembled and interpreted
InterpretQuality ==
    /\ opc = "interpret_quality"
    /\ Done(orch, "quality interpretation")
    /\ UNCHANGED <<issued, DiscVars, NotRun>>

\* the loop of discover_schema from step i of the kept steps on
NextStep(i, o) ==
    IF i > Len(o.steps) THEN GoOn("run_quality_metrics", o)
    ELSE CallTool(o.steps[i], << >>, "discover_schema_return", [o EXCEPT !.i = i])

\* discover_schema up to its first request: the plan, less the tools the
\* catalogue does not list
DiscoverSchema ==
    /\ opc = "discover_schema"
    /\ \E plan \in DiscoveryPlans :
          NextStep(1, [orch EXCEPT !.steps =
                         FilterPlan(plan, AvailableTools(orch.tool_inventory))])
    /\ UNCHANGED <<issued, DiscVars, NotRun>>

\* lines 227-229: the response of step i goes through the parser
DiscoverSchemaReturn ==
    /\ opc = "discover_schema_return"
    /\ pc = "idle"
    /\ IF ret.kind = "raise"
       THEN Abort(orch) /\ UNCHANGED DiscVars
       ELSE LET tool == orch.steps[orch.i]
                raw == ToOrdered(ret.value)
                a == apply(tool, raw, results)
            IN /\ results' = a.res
               /\ apply_ret' = IF a.raised THEN "raise" ELSE "return"
               /\ applied' = Append(applied, [tool |-> tool, raw |-> raw])
               /\ IF a.raised THEN Abort(orch) ELSE NextStep(orch.i + 1, orch)
    /\ UNCHANGED <<issued, NotRun>>

\* the loop of run_quality_metrics from planned tool i on
NextSpec(i, o) ==
    IF i > Len(o.dq_tools) THEN GoOn("summarize_with_llm", o)
    ELSE CallTool(o.dq_tools[i],
                  QualityArgs(o.dq_tools[i], o.schema_inventory, results.tables),
                  "run_quality_metrics_return", [o EXCEPT !.i = i])

\* run_quality_metrics up to its first request
RunQualityMetrics ==
    /\ opc = "run_quality_metrics"
    /\ \E plan \in QualityPlans :
          NextSpec(1, [orch EXCEPT !.dq_tools =
                         FilterPlan(plan, AvailableTools(orch.tool_inventory))])
    /\ UNCHANGED <<issued, DiscVars, NotRun>>

\* lines 410-412: the result member of the response is kept
RunQualityMetricsReturn ==
    /\ opc = "run_quality_metrics_return"
    /\ pc = "idle"
    /\ IF ret.kind = "raise" THEN Abort(orch)
       ELSE NextSpec(orch.i + 1,
                     [orch EXCEPT !.quality_results =
                        Append(@, [tool |-> orch.dq_tools[orch.i],
                                   result |-> Get(ret.value, "result")])])
    /\ UNCHANGED <<issued, DiscVars, NotRun>>

\* lines 497-502: the legacy summary
SummarizeWithLlm ==
    /\ opc = "summarize_with_llm"
    /\ Done(orch, "legacy summary")
    /\ UNCHANGED <<issued, DiscVars, NotRun>>

\* ----- the steps of the call_tool the orchestrator waits for

InRun == opc \notin {"new", "done", "raised"}

ToolsCallIssued == [method |-> "tools/call", name |-> frame.canonical]

RunCallToolDirect ==
    /\ InRun
    /\ call_tool_direct(Answer(orch.mode, orch.shape, frame.canonical, Len(wire) + 1))
    /\ issued' = Append(issued, ToolsCallIssued)
    /\ UNCHANGED <<opc, orch, DiscVars, NotRun>>

RunCallToolSkip ==
    /\ InRun
    /\ call_tool_skip
    /\ UNCHANGED <<opc, orch, issued, DiscVars, NotRun>>

RunCallToolVariant ==
    /\ InRun
    /\ call_tool_variant(Answer(orch.mode, orch.shape, frame.canonical, Len(wire) + 1))
    /\ issued' = Append(issued, ToolsCallIssued)
    /\ UNCHANGED <<opc, orch, DiscVars, NotRun>>

RunCallToolExhausted ==
    /\ InRun
    /\ call_tool_exhausted
    /\ UNCHANGED <<opc, orch, issued, DiscVars, NotRun>>

\* ----- the run specification: one run_full of a fresh orchestrator

RunInit ==
    /\ camel_first \in SUBSET {DatabaseName}
    /\ DiscIdle
    /\ NoDiscovery
    /\ NoEnvelope
    /\ TwoFreshClients
    /\ opc = "new"
    /\ issued = << >>
    /\ \E named \in BOOLEAN, shape \in Shapes :
          orch = [NewOrchestrator(IF named THEN Db1 ELSE None)
                    EXCEPT !.shape = shape]

RunNext ==
    \/ EnsureConnection
    \/ InventorySchema
    \/ InventorySchemaReturn
    \/ InventoryTools
    \/ DeriveIntent
    \/ DeterministicDiscovery
    \/ DeterministicDiscoveryDatabases
    \/ DeterministicDiscoveryTables
    \/ DeterministicDiscoveryDdl
    \/ CollectColumnSummaries
    \/ CollectColumnSummariesReturn
    \/ RunColumnQuality
    \/ RunColumnQualityReturn
    \/ InterpretQuality
    \/ DiscoverSchema
    \/ DiscoverSchemaReturn
    \/ RunQualityMetrics
    \/ RunQualityMetricsReturn
    \/ SummarizeWithLlm
    \/ RunCallToolDirect
    \/ RunCallToolSkip
    \/ RunCallToolVariant
    \/ RunCallToolExhausted

SpecRunFull == RunInit /\ [][RunNext]_vars

\* ------------------------------------------ claims on the orchestrator

\* C22: in every run of the orchestrator, each change to databases, tables,
\* ddl or previews of the DiscoveryResults is made by an apply step; no
\* other operation modifies the accumulator.
C22_ApplyIsOnlyWriter ==
    [][results' # results => applied' # applied]_vars

\* the call_tool that returned last failed: a transport failure, an error
\* response, or a response without a result
FailedToolCall ==
    \/ ret.kind = "raise"
    \/ /\ ret.kind = "return"
       /\ "_tool" \in DOMAIN ret.value.items \/ "tool" \in DOMAIN ret.value.items
       /\ \/ "error" \in DOMAIN ret.value.items
          \/ "result" \notin DOMAIN ret.value.items

\* C24: after a successful handshake, the failure of a tool call (an error
\* response, an empty result, a transport failure) never makes run_full end
\* in an exception, so the remaining calls are issued and a summary returned.
C24_ToolFailureNeverAborts ==
    (orch.handshake_ok /\ FailedToolCall) => opc # "raised"

\* ------------------------------- further claims on the discovery parser

\* C31: every previews entry holds at most 50 rows and is keyed by the tool
\* name of an apply call; a row-array field is stored only when it is a
\* non-empty list whose rows are dict-shaped.
C31_PreviewsCappedKeyedDictRows ==
    \A n \in 1..Len(results.previews) :
       LET tool == results.previews[n][1]
           rows == results.previews[n][2]
       IN /\ Len(rows) <= PreviewCap
          /\ \E a \in 1..Len(applied) : applied[a].tool = tool
          /\ rows # << >>
          /\ \A r \in 1..Len(rows) : rows[r].ty = "dict"

\* two lists hold the same values in the same order
SameValues(a, b) ==
    /\ Len(a) = Len(b)
    /\ \A i \in 1..Len(a) : a[i].ty = b[i].ty /\ a[i] = b[i]

RECURSIVE MergedInto(_, _)
\* a list of strings merged into a list: each string not yet in it is put
\* at its end, in order
MergedInto(target, values) ==
    IF values = << >> THEN target
    ELSE MergedInto(IF InList(Head(values), target) THEN target
                    ELSE Append(target, Head(values)),
                    Tail(values))

\* the upper-case strings of a list are more than 30% of it
UpperShare(values) ==
    10 * Cardinality({i \in 1..Len(values) : isupper(values[i].val)})
       > 3 * Len(values)

SomeDot(values) == \E i \in 1..Len(values) : Contains(values[i].val, <<".">>)

\* C32: a payload that is a non-empty list of strings is merged into
\* databases iff no string contains a dot, more than 30% of the strings are
\* upper-case and the tool name ends in databaseList; otherwise into tables
\* iff some string contains a dot or the tool name ends in tableList;
\* otherwise nothing changes. A list with a non-string element changes
\* nothing.
C32_ListOfStringsClassified ==
    [][ applied' # applied
        => LET e == applied'[Len(applied')]
               p == AppliedPayload(e)
               strings == \A i \in 1..Len(p.val) : p.val[i].ty = "str"
               as_databases == /\ ~SomeDot(p.val) /\ UpperShare(p.val)
                               /\ EndsWith(e.tool, "databaseList")
               as_tables == SomeDot(p.val) \/ EndsWith(e.tool, "tableList")
           IN (p.ty = "list" /\ p.val # << >>)
              => /\ apply_ret' = "return"
                 /\ results'.ddl = results.ddl
                 /\ results'.previews = results.previews
                 /\ SameValues(results'.databases,
                               IF strings /\ as_databases
                               THEN MergedInto(results.databases, p.val)
                               ELSE results.databases)
                 /\ SameValues(results'.tables,
                               IF strings /\ ~as_databases /\ as_tables
                               THEN MergedInto(results.tables, p.val)
                               ELSE results.tables) ]_vars

\* a list of three strings, one of them upper-case, came from
\* base_databaseList and was merged into databases
C32_Witness ==
    /\ \E a \in 1..Len(applied) :
          /\ applied[a].tool = <<BASE, "databaseList">>
          /\ AppliedPayload(applied[a]).ty = "list"
          /\ Len(AppliedPayload(applied[a]).val) = 3
    /\ InList(DB("sales"), results.databases)
    /\ results.tables = << >>

\* C33: every element of databases and of tables is a string: apply never
\* appends a number, mapping, list or null taken from a response.
C33_NamesAreStrings ==
    /\ \A i \in 1..Len(results.databases) : results.databases[i].ty = "str"
    /\ \A i \in 1..Len(results.tables) : results.tables[i].ty = "str"

\* list a is the beginning of list b
IsPrefixOf(a, b) == Len(a) <= Len(b) /\ SameValues(a, SubSeq(b, 1, Len(a)))

\* C34: apply only accumulates: the databases before are a prefix of the
\* databases after, likewise the tables, and no key leaves ddl or previews;
\* a raw response that is no mapping leaves the accumulator unchanged.
C34_ApplyOnlyAccumulates ==
    [][ applied' # applied
        => /\ IsPrefixOf(results.databases, results'.databases)
           /\ IsPrefixOf(results.tables, results'.tables)
           /\ DictKeys(results.ddl) \subseteq DictKeys(results'.ddl)
           /\ DictKeys(results.previews) \subseteq DictKeys(results'.previews)
           /\ applied'[Len(applied')].raw.ty # "dict"
              => /\ SameValues(results'.databases, results.databases)
                 /\ SameValues(results'.tables, results.tables)
                 /\ results'.ddl = results.ddl
                 /\ results'.previews = results.previews ]_vars

\* a second apply added a database behind the two that the first had put
\* into the accumulator
C34_Witness ==
    /\ Len(applied) = 2
    /\ SameValues(results.databases, <<DB("DB1"), DB("DB2"), DB("DB3")>>)

RECURSIVE SameJson(_, _)
\* two Python values of the discovery inputs are equal
SameJson(a, b) ==
    /\ a.ty = b.ty
    /\ CASE a.ty = "none" -> TRUE
         [] a.ty = "dict" ->
              /\ Len(a.pairs) = Len(b.pairs)
              /\ \A i \in 1..Len(a.pairs) :
                    /\ a.pairs[i][1] = b.pairs[i][1]
                    /\ SameJson(a.pairs[i][2], b.pairs[i][2])
         [] a.ty = "list" ->
              /\ Len(a.val) = Len(b.val)
              /\ \A i \in 1..Len(a.val) : SameJson(a.val[i], b.val[i])
         [] OTHER -> a.val = b.val

\* two apply calls were given the same tool and the same response
SamePair(d, e) == d.tool = e.tool /\ SameJson(d.raw, e.raw)

\* this apply step is given the tool and the response of the apply before
SamePairAgain ==
    /\ applied # << >>
    /\ Len(applied') = Len(applied) + 1
    /\ SamePair(applied'[Len(applied')], applied[Len(applied)])

\* C35: applying the same tool and raw response twice in a row leaves
\* databases, tables, ddl and previews as they were after the first
\* application, also when the DDL text has no extractable table identifier.
C35_ApplyIdempotent ==
    [][ SamePairAgain
        => /\ SameValues(results'.databases, results.databases)
           /\ SameValues(results'.tables, results.tables)
           /\ results'.ddl = results.ddl
           /\ results'.previews = results.previews ]_vars

\* ------------------------------------ further claims on the orchestrator

\* a response to initialize that lacks 'result' or has 'error'
FailedHandshake(r) ==
    /\ r.kind = "return"
    /\ \/ "result" \notin DOMAIN r.value.items
       \/ "error" \in DOMAIN r.value.items

\* C36: in run_full the initialize request is the first request sent; if
\* its response lacks 'result' or contains 'error' (an empty response
\* included), run_full returns the fixed failure summary and no tools/list
\* or tools/call request is sent afterwards.
C36_FailedHandshakeStopsRun ==
    [][ /\ Len(issued') > Len(issued)
           => (issued'[Len(issued')].method = "initialize" <=> issued = << >>)
        /\ (opc = "new" /\ opc' # "new" /\ FailedHandshake(ret'))
           => opc' = "done" /\ orch'.summary = "handshake failed"
        /\ orch'.summary = "handshake failed"
           => opc' = "done" /\ Len(issued') = 1 ]_vars

\* initialize was answered by an empty response: the run is over with the
\* failure summary and one request sent
C36_Witness ==
    /\ opc = "done"
    /\ orch.summary = "handshake failed"
    /\ ret.kind = "return"
    /\ DOMAIN ret.value.items = {}
    /\ Len(issued) = 1
    /\ issued[1].method = "initialize"

\* the tool names of a tools/list response, whether its 'tools' list is a
\* member of the result or of the response itself
CatalogueNames(inventory) ==
    AvailableTools(inventory)
    \cup (IF inventory.ty = "dict" /\ Get(inventory, "result").ty = "dict"
          THEN AvailableTools(Get(inventory, "result")) ELSE {})

\* kept is what is left of plan, and holds every tool of plan whose
\* canonical name the catalogue lists
KeepsListedTools(plan, kept, catalogue) ==
    /\ \A n \in 1..Len(kept) : \E i \in 1..Len(plan) : plan[i] = kept[n]
    /\ \A i \in 1..Len(plan) :
          normalize_tool_name(plan[i]) \in catalogue
             => \E n \in 1..Len(kept) : kept[n] = plan[i]

\* C37: in discover_schema and run_quality_metrics a planned tool whose
\* canonical name is in the server's tools/list catalogue is kept for
\* invocation, not skipped as unknown, whether the plan names it by its
\* short logical name or by its namespaced name.
C37_ListedToolsAreInvoked ==
    [][ /\ (opc = "discover_schema" /\ opc' # opc)
           => \E plan \in DiscoveryPlans :
                 KeepsListedTools(plan, orch'.steps,
                                  CatalogueNames(orch.tool_inventory))
        /\ (opc = "run_quality_metrics" /\ opc' # opc)
           => \E plan \in QualityPlans :
                 KeepsListedTools(plan, orch'.dq_tools,
                                  CatalogueNames(orch.tool_inventory)) ]_vars

\* ------------------------------- call_tool and the caller's arguments

\* C38: call_tool never modifies the argument mapping its caller passed:
\* through a suppressed call, a direct success, a variant success or a
\* total failure the caller's mapping keeps its keys and values, whatever
\* mappings the variant attempts send.
C38_CallerArgumentsUntouched ==
    [][ /\ pc # "idle" => frame'.arguments = frame.arguments
        /\ wire' # << >>
           => DictEq(frame'.arguments, wire'[1].params.arguments) ]_vars

\* every variant was rejected, one of them with other keys than the
\* caller's, and the caller's mapping is still what the direct attempt sent
C38_Witness ==
    /\ pc = "idle"
    /\ ret.kind = "return"
    /\ frame.signature \in failure_cache
    /\ Len(wire) >= 3
    /\ \E n \in 2..Len(wire) :
          DictKeys(wire[n].params.arguments) # DictKeys(frame.arguments)
    /\ wire[1].params.arguments = frame.arguments
    /\ frame.arguments # << >>

====
